---- MODULE Spec2Model ----
(***************************************************************************)
(* Trace-delivery subsystem of the outbound call agent                     *)
(* (src/agent/src/utils/tracing.py): a bounded asyncio.Queue, a pool of    *)
(* consumer tasks, and the init/shutdown lifecycle around them.            *)
(*                                                                         *)
(* Scheduling is that of one asyncio event loop: a task runs from one      *)
(* suspension point (await on a pending future) to the next without        *)
(* interleaving.  A task that is in the middle of such a run is at a       *)
(* "running" position (Busy) and no other task may step until it           *)
(* suspends or finishes.  Tasks that were created or woken are run in the  *)
(* order in which they were scheduled (loop.call_soon is FIFO): ready.     *)
(* Calls from outside the subsystem (a conversation task calling           *)
(* write_trace, the job calling init or shutdown, a timeout, the end of    *)
(* network I/O) happen at any time between two runs.                       *)
(***************************************************************************)
EXTENDS Naturals, Integers, Sequences, FiniteSets, TLC

\* ------------------------------------------------------------------ bounds
\* capacity of the trace queue: asyncio.Queue(maxsize=100) in the program,
\* scaled down so that a full queue is reached with few write_trace calls
QueueMaxSize == 1
\* number of write_trace calls explored
MaxCalls == 2
\* number of init_trace_system calls (queue/session/worker generations)
MaxGen == 2
\* number of shutdown_trace_system calls explored
MaxShutdowns == 2
\* number of conversation_item_added events of the session explored
MaxEvents == 2
\* longest response value (in fragments) of the replies the model streams
MaxStr == 2
\* largest number of fragments the model delivers in one chunk
MaxChunk == 2

\* -------------------------------------------------------- program constants
N_WRITE_TRACE_CONSUMERS == 5

None == 0

MESSAGE_TYPE_USER == "user"
MESSAGE_TYPE_AGENT == "agent"
MESSAGE_TYPE_REASONING_USER_RESPONSE == "reasoning:user_response"
\* a message_type value that is not hashable (e.g. a list): Python raises
\* TypeError when it is tested for membership in a set
UNHASHABLE == "<unhashable>"

Gens == 1..MaxGen
Workers == 1..(MaxGen * N_WRITE_TRACE_CONSUMERS)
\* call ids: the calls of a conversation task, and two per routed event
NCalls == IF MaxCalls > 2 * MaxEvents THEN MaxCalls ELSE 2 * MaxEvents
Calls == 1..NCalls
Events == 1..MaxEvents
\* runs of process_structured_output observed side by side
Runs == 1..2

\* TraceItem: the fields the consumer looks at.  has_text tells whether
\* message["text"] exists.
TraceItem(mt, redact, ut, txt) ==
    [message_type |-> mt, should_redact |-> redact, is_unit_test |-> ut, has_text |-> txt]

\* the write_trace argument tuples explored
ItemInputs ==
    { TraceItem(MESSAGE_TYPE_USER, TRUE, FALSE, TRUE),
      TraceItem(UNHASHABLE, TRUE, TRUE, TRUE) }

NoItem == TraceItem("", FALSE, FALSE, FALSE)

\* ---------------------------------------------------------------- texts
\* A text is a sequence of fragments: each fragment is one or more
\* characters that the model never splits.  Chunk boundaries of a token
\* stream and truncations fall between fragments.
QUOTE == "\""
Digits == {"1", "2"}
DigitValue(ch) == IF ch = "1" THEN 1 ELSE 2

ROLE_USER == "user"
ROLE_ASSISTANT == "assistant"

\* the field names of ResponseFormat, as they are spelled in a text
KEY_FRUSTRATION == << "user_frustration_level" >>
KEY_ATTEMPTS == << "number_of_attempts" >>
KEY_RESPONSE == << "respon", "se" >>

\* FrustrationLevel
FrustrationLevel == { << "low" >>, << "medium" >>, << "high" >> }

\* JSON values: a string (sequence of fragments) or an integer
StrVal(s) == [type |-> "str", str |-> s, num |-> 0]
NumVal(n) == [type |-> "int", str |-> <<>>, num |-> n]

\* the dict {}
EmptyDict == [k \in {} |-> StrVal(<<>>)]

\* d[k] = v on a dict: a key that is already there is overwritten
DictSet(d, k, v) == [x \in (DOMAIN d) \cup {k} |-> IF x = k THEN v ELSE d[x]]

\* results of from_json: ValueError, a dict, or a value that is no dict
ParseError == [kind |-> "error", dict |-> EmptyDict]
ParseDict(d) == [kind |-> "dict", dict |-> d]
ParseOther == [kind |-> "other", dict |-> EmptyDict]

RECURSIVE Scan(_, _, _, _, _, _)
\* the JSON scanner behind from_json(text, allow_partial="trailing-strings")
\* on texts without white space, escapes or nesting: t is the text, i the
\* next position, st the scanner state, d the dict built so far, k the key
\* and v the value being read.  At the end of the text an unfinished object
\* is returned with its complete members, plus the member whose string
\* value is unfinished; an unfinished key or a member without value is
\* left out.  Text after the closing brace is not looked at.
Scan(t, i, st, d, k, v) ==
    IF i > Len(t)
    THEN CASE st = "top" -> ParseError
           [] st = "str" -> ParseDict(DictSet(d, k, StrVal(v.str)))
           [] st = "num" -> ParseDict(DictSet(d, k, v))
           [] OTHER -> ParseDict(d)
    ELSE LET ch == t[i] IN
         CASE st = "top" ->
                IF ch = "{" THEN Scan(t, i + 1, "first", d, k, v)
                ELSE IF ch \in Digits \cup {QUOTE, "["} THEN ParseOther
                ELSE ParseError
           [] st = "first" ->
                IF ch = "}" THEN ParseDict(d)
                ELSE IF ch = QUOTE THEN Scan(t, i + 1, "key", d, <<>>, v)
                ELSE ParseError
           [] st = "nextkey" ->
                IF ch = QUOTE THEN Scan(t, i + 1, "key", d, <<>>, v)
                ELSE ParseError
           [] st = "key" ->
                IF ch = QUOTE THEN Scan(t, i + 1, "colon", d, k, v)
                ELSE Scan(t, i + 1, "key", d, Append(k, ch), v)
           [] st = "colon" ->
                IF ch = ":" THEN Scan(t, i + 1, "value", d, k, v)
                ELSE ParseError
           [] st = "value" ->
                IF ch = QUOTE THEN Scan(t, i + 1, "str", d, k, StrVal(<<>>))
                ELSE IF ch \in Digits THEN Scan(t, i + 1, "num", d, k, NumVal(DigitValue(ch)))
                ELSE ParseError
           [] st = "str" ->
                IF ch = QUOTE THEN Scan(t, i + 1, "after", DictSet(d, k, v), k, v)
                ELSE Scan(t, i + 1, "str", d, k, StrVal(Append(v.str, ch)))
           [] st = "num" ->
                IF ch \in Digits
                THEN Scan(t, i + 1, "num", d, k, NumVal(10 * v.num + DigitValue(ch)))
                ELSE IF ch = "," THEN Scan(t, i + 1, "nextkey", DictSet(d, k, v), k, v)
                ELSE IF ch = "}" THEN ParseDict(DictSet(d, k, v))
                ELSE ParseError
           [] OTHER -> \* st = "after": a member is complete
                IF ch = "," THEN Scan(t, i + 1, "nextkey", d, k, v)
                ELSE IF ch = "}" THEN ParseDict(d)
                ELSE ParseError

\* pydantic_core.from_json(text, allow_partial="trailing-strings")
from_json(text) == Scan(text, 1, "top", EmptyDict, <<>>, StrVal(<<>>))

\* the text of a JSON string / a member "key":value / an object
JsonString(s) == << QUOTE >> \o s \o << QUOTE >>
JsonMember(k, valuetext) == JsonString(k) \o << ":" >> \o valuetext

RECURSIVE JoinMembers(_)
JoinMembers(ms) ==
    IF ms = <<>> THEN <<>>
    ELSE IF Len(ms) = 1 THEN Head(ms)
    ELSE Head(ms) \o << "," >> \o JoinMembers(Tail(ms))

JsonObject(ms) == << "{" >> \o JoinMembers(ms) \o << "}" >>

\* s[n:] of Python, for n >= 0
Slice(s, n) == IF n >= Len(s) THEN <<>> ELSE SubSeq(s, n + 1, Len(s))

\* s[:n] of Python, for n >= 0
Prefix(s, n) == IF n >= Len(s) THEN s ELSE SubSeq(s, 1, n)

IsPrefix(s, t) == Len(s) <= Len(t) /\ Prefix(t, Len(s)) = s

\* a conversation item: role and text_content
ConversationItem(role, text) == [role |-> role, text_content |-> text]
NoEvent == ConversationItem("", <<>>)

\* the message of a call that was not made
NoMessage == [text |-> << "" >>]

VARIABLES
    is_console,      \* is_console_mode(): fixed for the process
    queue_maxsize,   \* the capacity init_trace_system gives the queue: fixed
    trace_queue,     \* global: None or the id of the current queue object
    trace_session,   \* global: None or the id of the current ClientSession
    trace_consumers, \* global: list of consumer task ids
    ngen,            \* number of init_trace_system calls so far
    queues,          \* queue objects: items, unfinished, getters, putters, maxsize
    session_closed,  \* per ClientSession: closed?
    ready,           \* event loop: the scheduled tasks, in the order they will run
    wpc,             \* per consumer task: position
    wcancel,         \* per consumer task: "no", "must" (cancel requested), "fut" (its getter future was cancelled), "cancelled" (CancelledError was raised in it)
    wq,              \* per consumer task: queue object whose get() it is suspended in
    witem,           \* per consumer task: call id of the item it holds
    sd_pc,           \* position of shutdown_trace_system
    sd_q,            \* queue object whose join() shutdown is waiting in
    sd_count,        \* completed shutdown_trace_system calls
    sd_streak,       \* completed shutdown calls since the last init
    sd_raised,       \* an exception left shutdown_trace_system
    sd_items,        \* the items that were in trace_queue when shutdown_trace_system was called
    nsub,            \* number of write_trace calls made
    item,            \* per call: the TraceItem built
    cpc,             \* per call: "none", "scheduled", "blocked", "woken", "returned"
    cq,              \* per call: queue object whose put() it is in
    creport,         \* per call: what write_trace logged / did
    taken,           \* per item: number of times a consumer got it
    taker,           \* per item: consumer that got it last
    outcome,         \* per item: result of the consumer's handling
    done_marks,      \* per item: task_done() calls made for it
    content,         \* per item: the message the consumer held when it logged the Trace line
    text_writes,     \* per item: assignments to message["text"] made so far
    redact_log,      \* per item: "Failed to redact" was logged for it
    consent_to_record, \* session.userdata.consent_to_record: "None", "True" or "False"
    consent_granted, \* consent_to_record has been "True" at some time
    nev,             \* number of conversation_item_added events emitted
    ev,              \* per event: role and text content of the item
    epc,             \* per event: position of its on_conversation_item_added task
    e_consent,       \* per event: the consent value its task read at line 156
    message,         \* per call: the message dict passed to write_trace
    exit_consent,    \* the consent value Assistant.on_exit read, "" before the agent exits
    notified,        \* number of POSTs to the session-end endpoint
    document,        \* the text the language model produces for one reply
    chunking,        \* how the stream cuts it: size of the first chunk, size of the others
    stream_ended,    \* the token stream has ended (after the chunks consumed so far)
    drun,            \* per run of process_structured_output: position
    dpos,            \* per run: number of chunks consumed
    acc_text,        \* per run: local acc_text
    last_response,   \* per run: local last_response
    emitted,         \* per run: the chunks yielded so far
    request,         \* the HTTP request the web service is answering
    http_pc,         \* how far the request has got: "idle", "received", "handler", "responded"
    status,          \* the HTTP status of the response, 0 before there is one
    trail,           \* the calls the view function has made for the request, in order
    livekit_configured, \* LIVEKIT_URL, LIVEKIT_API_KEY and LIVEKIT_API_SECRET are all set
    job,             \* what entrypoint is given: the job's metadata, SIP_OUTBOUND_TRUNK_ID, the SIP API's answer
    ep_pc,           \* entrypoint's position: "idle", "start", an await, "returned", "raised"
    ep_trail         \* the calls entrypoint has made, in order

exit_vars == << exit_consent, notified >>
router_vars == << consent_to_record, consent_granted, nev, ev, epc, e_consent, message,
                 exit_vars >>
decoder_vars == << document, chunking, stream_ended, drun, dpos, acc_text, last_response,
                   emitted >>
web_vars == << request, http_pc, status, trail, livekit_configured >>
entry_vars == << job, ep_pc, ep_trail >>

vars == << is_console, queue_maxsize, trace_queue, trace_session, trace_consumers, ngen, queues,
           session_closed, ready, wpc, wcancel, wq, witem, sd_pc, sd_q, sd_count, sd_streak,
           sd_raised, sd_items, nsub, item, cpc, cq, creport, taken, taker, outcome, done_marks,
           content, text_writes, redact_log,
           router_vars, decoder_vars, web_vars, entry_vars >>

lifecycle_vars == << trace_queue, trace_session, trace_consumers, ngen, session_closed >>
shutdown_vars == << sd_pc, sd_q, sd_count, sd_streak, sd_raised, sd_items >>
worker_vars == << ready, wpc, wcancel, wq, witem >>
call_vars == << nsub, item, cpc, cq, creport >>
log_vars == << taken, taker, outcome, done_marks, content, text_writes, redact_log >>

\* ------------------------------------------------------------ asyncio.Queue
\* asyncio.Queue(maxsize)
NewQueue(maxsize) ==
    [items |-> <<>>, unfinished |-> 0, getters |-> <<>>, putters |-> <<>>, maxsize |-> maxsize]

Full_never(q) == FALSE

\* Queue.full()
Full(q) == IF q.maxsize <= 0 THEN FALSE ELSE Len(q.items) >= q.maxsize

\* Queue.empty()
Empty(q) == q.items = <<>>

RECURSIVE SkipDone(_, _)
\* Queue._wakeup_next: pop waiters until one whose future is still pending
SkipDone(ws, pending) ==
    IF ws = <<>> THEN <<>>
    ELSE IF Head(ws) \in pending THEN ws
    ELSE SkipDone(Tail(ws), pending)

RECURSIVE Remove(_, _)
\* deque.remove(x), ValueError ignored
Remove(ws, x) ==
    IF ws = <<>> THEN <<>>
    ELSE IF Head(ws) = x THEN Tail(ws)
    ELSE <<Head(ws)>> \o Remove(Tail(ws), x)

Range(s) == { s[i] : i \in 1..Len(s) }

\* entries of the event loop's ready queue
WTask(w) == << "consumer", w >>
CTask(c) == << "write_trace", c >>

\* task t is the next one the event loop runs
IsNext(t) == ready # <<>> /\ Head(ready) = t

\* consumer tasks whose getter future is pending
PendingGetters == { w \in Workers : wpc[w] = "waiting" }
\* write_trace calls whose putter future is pending
PendingPutters == { c \in Calls : cpc[c] = "blocked" }

Alive(w) == wpc[w] \notin {"none", "done"}

\* a task is in the middle of a run (between two suspension points)
Busy ==
    \/ \E w \in Workers : wpc[w] \in {"loop", "handle"}
    \/ sd_pc \in {"L201", "L209", "L213"}
    \/ \E e \in Events : epc[e] = "L182"

TypeOK ==
    /\ is_console \in BOOLEAN
    /\ queue_maxsize \in 1..(QueueMaxSize + 1)
    /\ trace_queue \in {None} \cup Gens
    /\ trace_session \in {None} \cup Gens
    /\ ngen \in 0..MaxGen
    /\ wpc \in [Workers -> {"none", "start", "waiting", "woken", "loop", "handle", "done"}]
    /\ wcancel \in [Workers -> {"no", "must", "fut", "cancelled"}]
    /\ sd_pc \in {"idle", "gather", "L201", "join", "L209", "close", "L213"}
    /\ cpc \in [Calls -> {"none", "scheduled", "blocked", "woken", "returned"}]
    /\ nsub \in 0..MaxCalls
    /\ text_writes \in [Calls -> 0..2]
    /\ redact_log \in [Calls -> BOOLEAN]
    /\ consent_to_record \in {"None", "True", "False"}
    /\ consent_granted \in BOOLEAN
    /\ nev \in 0..MaxEvents
    /\ epc \in [Events -> {"none", "scheduled", "reasoning", "L182", "content", "done",
                            "failed"}]
    /\ e_consent \in [Events -> {"", "None", "True", "False"}]
    /\ exit_consent \in {"", "None", "True", "False"}
    /\ notified \in 0..1
    /\ sd_items \in Seq(Calls)
    /\ http_pc \in {"idle", "received", "handler", "responded"}
    /\ status \in {0, 200, 400, 401, 500}
    /\ livekit_configured \in BOOLEAN
    /\ stream_ended \in BOOLEAN
    /\ drun \in [Runs -> {"idle", "running", "done", "raised"}]
    /\ dpos \in [Runs -> 0..Len(document)]

\* the trace system of a process that has not called init_trace_system,
\* whose queue will have capacity maxsize
TraceInitSized(maxsize) ==
    /\ is_console \in BOOLEAN
    /\ queue_maxsize = maxsize
    /\ trace_queue = None
    /\ trace_session = None
    /\ trace_consumers = <<>>
    /\ ngen = 0
    /\ queues = [g \in Gens |-> NewQueue(0)]
    /\ session_closed = [g \in Gens |-> FALSE]
    /\ ready = <<>>
    /\ wpc = [w \in Workers |-> "none"]
    /\ wcancel = [w \in Workers |-> "no"]
    /\ wq = [w \in Workers |-> None]
    /\ witem = [w \in Workers |-> 0]
    /\ sd_pc = "idle"
    /\ sd_q = None
    /\ sd_count = 0
    /\ sd_streak = 0
    /\ sd_raised = FALSE
    /\ sd_items = <<>>
    /\ nsub = 0
    /\ item = [c \in Calls |-> NoItem]
    /\ cpc = [c \in Calls |-> "none"]
    /\ cq = [c \in Calls |-> None]
    /\ creport = [c \in Calls |-> "none"]
    /\ taken = [c \in Calls |-> 0]
    /\ taker = [c \in Calls |-> 0]
    /\ outcome = [c \in Calls |-> "none"]
    /\ done_marks = [c \in Calls |-> 0]
    /\ content = [c \in Calls |-> NoMessage]
    /\ text_writes = [c \in Calls |-> 0]
    /\ redact_log = [c \in Calls |-> FALSE]

TraceInit == TraceInitSized(QueueMaxSize)

\* a session that has seen no conversation item: MySessionInfo() as built
\* by entrypoint leaves consent_to_record at its default None
RouterInit ==
    /\ consent_to_record = "None"
    /\ consent_granted = FALSE
    /\ nev = 0
    /\ ev = [e \in Events |-> NoEvent]
    /\ epc = [e \in Events |-> "none"]
    /\ e_consent = [e \in Events |-> ""]
    /\ message = [c \in Calls |-> NoMessage]
    /\ exit_consent = ""
    /\ notified = 0

\* the headers of a request without an X-API-Key header
NoHeaders == [k \in {} |-> ""]

\* no request
NoRequest == [headers |-> NoHeaders, is_json |-> FALSE, json |-> "none", data |-> EmptyDict]

\* a process that is not serving a request
WebIdle ==
    /\ request = NoRequest
    /\ http_pc = "idle"
    /\ status = 0
    /\ trail = <<>>
    /\ livekit_configured = FALSE

\* no job whose entrypoint is followed
NoJob == [metadata |-> EmptyDict, trunk |-> FALSE, sip |-> "ok"]

\* a process whose entrypoint is not followed step by step
EntryIdle ==
    /\ job = NoJob
    /\ ep_pc = "idle"
    /\ ep_trail = <<>>

\* no reply is being streamed
DecoderIdle ==
    /\ document = <<>>
    /\ chunking = [first |-> 1, size |-> 1]
    /\ stream_ended = FALSE
    /\ drun = [d \in Runs |-> "idle"]
    /\ dpos = [d \in Runs |-> 0]
    /\ acc_text = [d \in Runs |-> <<>>]
    /\ last_response = [d \in Runs |-> <<>>]
    /\ emitted = [d \in Runs |-> <<>>]

Init == TraceInit /\ RouterInit /\ WebIdle /\ EntryIdle /\ DecoderIdle

\* ------------------------------------------------------------- write_trace
\* Queue.put_nowait(item) on queue object g: append, count the unfinished
\* task, wake the first consumer whose getter future is pending
PutNowait(g, c, rdy) ==
    LET q == queues[g]
        gs == SkipDone(q.getters, PendingGetters)
        w == IF gs = <<>> THEN 0 ELSE Head(gs)
    IN /\ queues' = [queues EXCEPT ![g] =
                        [q EXCEPT !.items = Append(@, c),
                                  !.unfinished = @ + 1,
                                  !.getters = IF gs = <<>> THEN <<>> ELSE Tail(gs)]]
       /\ wpc' = IF w = 0 THEN wpc ELSE [wpc EXCEPT ![w] = "woken"]
       /\ ready' = IF w = 0 THEN rdy ELSE Append(rdy, WTask(w))

\* one run of "await queue.put(item)" for call c on queue object g:
\* while the queue is full the caller appends a putter future and suspends;
\* otherwise put_nowait and return to write_trace, which returns
QueuePut(g, c, rdy) ==
    IF Full(queues[g])
    THEN /\ queues' = [queues EXCEPT ![g].putters = Append(@, c)]
         /\ cpc' = [cpc EXCEPT ![c] = "blocked"]
         /\ creport' = creport
         /\ wpc' = wpc
         /\ ready' = rdy
    ELSE /\ PutNowait(g, c, rdy)
         /\ cpc' = [cpc EXCEPT ![c] = "returned"]
         /\ creport' = [creport EXCEPT ![c] = "enqueued"]

\* the message argument that goes with the argument tuple it: a dict with
\* a "text" entry, or the dict {}
ItemMessage(it) == IF it.has_text THEN [text |-> << "Hi the" >>] ELSE EmptyDict

\* a conversation task that will call write_trace with arguments it is
\* created (asyncio.create_task) and scheduled
conversation_item_handler(it) ==
    /\ ~Busy
    /\ nsub < MaxCalls
    /\ LET c == nsub + 1 IN
       /\ nsub' = c
       /\ item' = [item EXCEPT ![c] = it]
       /\ message' = [message EXCEPT ![c] = ItemMessage(it)]
       /\ cpc' = [cpc EXCEPT ![c] = "scheduled"]
       /\ ready' = Append(ready, CTask(c))
    /\ UNCHANGED << is_console, queue_maxsize, entry_vars, web_vars, consent_to_record, consent_granted, nev, ev, epc, e_consent,
                    exit_vars, decoder_vars, lifecycle_vars, shutdown_vars, queues, wpc, wcancel, wq, witem,
                    cq, creport, log_vars >>

NotInitializedReport_silent == "none"

\* line 40: what write_trace logs when trace_queue is None
NotInitializedReport == "not_initialized"

\* lines 39-58: the body of write_trace for call c, run by a task whose
\* event loop has rdy scheduled behind it
WriteTraceBody(c, rdy) ==
    IF trace_queue = None
    THEN /\ creport' = [creport EXCEPT ![c] = NotInitializedReport]
         /\ cpc' = [cpc EXCEPT ![c] = "returned"]
         /\ ready' = rdy
         /\ UNCHANGED << cq, queues, wpc >>
    ELSE /\ cq' = [cq EXCEPT ![c] = trace_queue]
         /\ QueuePut(trace_queue, c, rdy)

\* write_trace(...) is run by its task
write_trace(c) ==
    /\ ~Busy
    /\ cpc[c] = "scheduled"
    /\ IsNext(CTask(c))
    /\ WriteTraceBody(c, Tail(ready))
    /\ UNCHANGED << is_console, queue_maxsize, entry_vars, web_vars, router_vars, decoder_vars, lifecycle_vars, shutdown_vars, wcancel, wq, witem, log_vars,
                    nsub, item >>

\* a write_trace call suspended in put() is resumed after its putter future
\* was set: put() tests full() again
write_trace_resume(c) ==
    /\ ~Busy
    /\ cpc[c] = "woken"
    /\ IsNext(CTask(c))
    /\ QueuePut(cq[c], c, Tail(ready))
    /\ UNCHANGED << is_console, queue_maxsize, entry_vars, web_vars, router_vars, decoder_vars, lifecycle_vars, shutdown_vars, wcancel, wq, witem, log_vars,
                    nsub, item, cq >>

\* ---------------------------------------------------------- trace_consumer
SkipInConsole_anyItem(it, console) == console

\* lines 130-136: item skipped in console mode
SkipInConsole(it, console) == (~it.is_unit_test) /\ console

\* line 139: the test raises TypeError when message_type is not hashable
RedactTestRaises(it) == it.should_redact /\ it.message_type = UNHASHABLE

ShouldRedact_anyType(it) == it.should_redact

\* line 139: the redaction step is entered
ShouldRedact(it) ==
    it.should_redact /\ it.message_type \in {MESSAGE_TYPE_USER, MESSAGE_TYPE_AGENT}

\* lines 140-145: content["text"] raises KeyError, caught and logged
RedactFails(it) == ShouldRedact(it) /\ ~it.has_text

HandleResult_redactFatal(it, console) ==
    IF SkipInConsole(it, console) THEN "skipped"
    ELSE IF RedactTestRaises(it) \/ RedactFails(it) THEN "error"
    ELSE "delivered"

\* lines 130-148 for one item: "skipped", "error" (exception reaches the
\* handler of line 156) or "delivered" (the Trace line is logged)
HandleResult(it, console) ==
    IF SkipInConsole(it, console) THEN "skipped"
    ELSE IF RedactTestRaises(it) THEN "error"
    ELSE "delivered"

\* line 142: the redaction of a text ("no redaction for now")
Redact(text) == text

\* lines 139-145: the redaction step assigns message["text"]
TextWritten(it) == ShouldRedact(it) /\ ~RedactFails(it)

ConsumerContent_blank(it, m) == NoMessage

\* lines 138-145: the message the consumer holds at the Trace line
ConsumerContent(it, m) ==
    IF TextWritten(it) THEN [m EXCEPT !.text = Redact(m.text)] ELSE m

\* Queue.task_done() succeeds on queue object g
TaskDoneOk(g) == g # None /\ queues[g].unfinished > 0

ConsumerAfterException_break == "done"

\* lines 156-158: position of the consumer after a non-cancellation error
ConsumerAfterException == "loop"

ConsumerAfterCancelled_continue == "loop"

\* lines 153-155: position of the consumer after CancelledError
ConsumerAfterCancelled == "done"

QueueGetItem_last(q) == q.items[Len(q.items)]

\* Queue.get_nowait(): the head of the queue
QueueGetItem(q) == Head(q.items)

QueueGetRest_peek(q) == q.items

\* Queue.get_nowait(): what is left in the queue
QueueGetRest(q) == Tail(q.items)

\* line 127, "await trace_queue.get()": run by a consumer that starts, that
\* comes round the loop, or that is resumed because its getter future was set
consumer_get(w) ==
    /\ \/ wpc[w] = "loop"
       \/ /\ wpc[w] \in {"start", "woken"}
          /\ wcancel[w] = "no"
          /\ ~Busy
          /\ IsNext(WTask(w))
    /\ LET g == IF wpc[w] = "woken" THEN wq[w] ELSE trace_queue
           rdy == IF wpc[w] = "loop" THEN ready ELSE Tail(ready)
       IN
       IF g = None
       THEN \* AttributeError, caught at line 156
            /\ wpc' = [wpc EXCEPT ![w] = ConsumerAfterException]
            /\ ready' = rdy
            /\ UNCHANGED << queues, wq, witem, cpc, taken, taker >>
       ELSE IF Empty(queues[g])
       THEN /\ queues' = [queues EXCEPT ![g].getters = Append(@, w)]
            /\ wpc' = [wpc EXCEPT ![w] = "waiting"]
            /\ wq' = [wq EXCEPT ![w] = g]
            /\ ready' = rdy
            /\ UNCHANGED << witem, cpc, taken, taker >>
       ELSE LET q == queues[g]
                c == QueueGetItem(q)
                ps == SkipDone(q.putters, PendingPutters)
                p == IF ps = <<>> THEN 0 ELSE Head(ps)
            IN /\ queues' = [queues EXCEPT ![g] =
                                [q EXCEPT !.items = QueueGetRest(q),
                                          !.putters = IF ps = <<>> THEN <<>> ELSE Tail(ps)]]
               /\ cpc' = IF p = 0 THEN cpc ELSE [cpc EXCEPT ![p] = "woken"]
               /\ ready' = IF p = 0 THEN rdy ELSE Append(rdy, CTask(p))
               /\ wpc' = [wpc EXCEPT ![w] = "handle"]
               /\ witem' = [witem EXCEPT ![w] = c]
               /\ taken' = [taken EXCEPT ![c] = @ + 1]
               /\ taker' = [taker EXCEPT ![c] = w]
               /\ wq' = wq
    /\ UNCHANGED << is_console, queue_maxsize, entry_vars, web_vars, router_vars, decoder_vars, lifecycle_vars, shutdown_vars, wcancel,
                    nsub, item, cq, creport, outcome, done_marks, content, text_writes,
                    redact_log >>

\* lines 129-151: the consumer handles the item it got, then task_done()
consumer_handle(w) ==
    /\ wpc[w] = "handle"
    /\ LET c == witem[w]
           r == HandleResult(item[c], is_console)
       IN /\ content' = IF r = "delivered"
                         THEN [content EXCEPT ![c] = ConsumerContent(item[c], message[c])]
                         ELSE content
          /\ text_writes' = IF r = "delivered" /\ TextWritten(item[c])
                             THEN [text_writes EXCEPT ![c] = @ + 1]
                             ELSE text_writes
          /\ redact_log' = IF r = "delivered" /\ RedactFails(item[c])
                            THEN [redact_log EXCEPT ![c] = TRUE]
                            ELSE redact_log
          /\ IF r = "error"
             THEN /\ outcome' = [outcome EXCEPT ![c] = "error"]
                  /\ wpc' = [wpc EXCEPT ![w] = ConsumerAfterException]
                  /\ UNCHANGED << queues, done_marks >>
             ELSE IF TaskDoneOk(trace_queue)
             THEN /\ outcome' = [outcome EXCEPT ![c] = r]
                  /\ queues' = [queues EXCEPT ![trace_queue].unfinished = @ - 1]
                  /\ done_marks' = [done_marks EXCEPT ![c] = @ + 1]
                  /\ wpc' = [wpc EXCEPT ![w] = "loop"]
             ELSE \* task_done() raises (AttributeError / ValueError), caught at line 156
                  /\ outcome' = [outcome EXCEPT ![c] = "done_error"]
                  /\ wpc' = [wpc EXCEPT ![w] = ConsumerAfterException]
                  /\ UNCHANGED << queues, done_marks >>
    /\ witem' = [witem EXCEPT ![w] = 0]
    /\ UNCHANGED << is_console, queue_maxsize, entry_vars, web_vars, router_vars, decoder_vars, lifecycle_vars, shutdown_vars, ready, wcancel, wq,
                    call_vars, taken, taker >>

\* a consumer whose cancellation was requested is resumed: CancelledError is
\* raised at its await (a task that never started just ends cancelled)
consumer_cancelled(w) ==
    /\ ~Busy
    /\ wpc[w] \in {"start", "woken"}
    /\ wcancel[w] # "no"
    /\ IsNext(WTask(w))
    /\ wcancel' = [wcancel EXCEPT ![w] = "cancelled"]
    /\ wq' = [wq EXCEPT ![w] = None]
    /\ IF wpc[w] = "start"
       THEN /\ wpc' = [wpc EXCEPT ![w] = "done"]
            /\ ready' = Tail(ready)
            /\ UNCHANGED queues
       ELSE LET g == wq[w]
                q == queues[g]
                rest == Remove(q.getters, w)
                \* Queue.get(): a getter that had been given an item passes the wakeup on
                pass == (~Empty(q)) /\ wcancel[w] = "must"
                gs == IF pass THEN SkipDone(rest, PendingGetters) ELSE rest
                n == IF pass /\ gs # <<>> THEN Head(gs) ELSE 0
            IN /\ queues' = [queues EXCEPT ![g].getters = IF n = 0 THEN gs ELSE Tail(gs)]
               /\ wpc' = IF n = 0 THEN [wpc EXCEPT ![w] = ConsumerAfterCancelled]
                          ELSE [wpc EXCEPT ![w] = ConsumerAfterCancelled, ![n] = "woken"]
               /\ ready' = IF n = 0 THEN Tail(ready) ELSE Append(Tail(ready), WTask(n))
    /\ UNCHANGED << is_console, queue_maxsize, entry_vars, web_vars, router_vars, decoder_vars, lifecycle_vars, shutdown_vars, witem, call_vars, log_vars >>

\* ------------------------------------------------------- init_trace_system
TasksOfGen_short(g) ==
    [i \in 1..(N_WRITE_TRACE_CONSUMERS - 1) |-> (g - 1) * N_WRITE_TRACE_CONSUMERS + i]

\* lines 177-181: the consumer tasks created by the g-th init_trace_system
TasksOfGen(g) ==
    [i \in 1..N_WRITE_TRACE_CONSUMERS |-> (g - 1) * N_WRITE_TRACE_CONSUMERS + i]

init_trace_system ==
    LET g == ngen + 1 IN
    /\ ngen' = g
    /\ queues' = [queues EXCEPT ![g] = NewQueue(queue_maxsize)]
    /\ trace_queue' = g
    /\ session_closed' = [session_closed EXCEPT ![g] = FALSE]
    /\ trace_session' = g
    /\ trace_consumers' = TasksOfGen(g)
    /\ wpc' = [w \in Workers |-> IF w \in Range(TasksOfGen(g)) THEN "start" ELSE wpc[w]]
    /\ ready' = ready \o [i \in DOMAIN TasksOfGen(g) |-> WTask(TasksOfGen(g)[i])]
    /\ sd_streak' = 0
    /\ UNCHANGED << is_console, queue_maxsize, web_vars, router_vars, decoder_vars, wcancel, wq, witem, sd_pc, sd_q, sd_count, sd_raised, sd_items,
                    call_vars, log_vars >>

\* entrypoint (agent.py): the job initialises the trace system once, before
\* anything else, on a process whose trace system is not initialised
entrypoint_init ==
    /\ ~Busy
    /\ sd_pc = "idle"
    /\ trace_queue = None
    /\ ngen < MaxGen
    /\ init_trace_system
    /\ UNCHANGED entry_vars

\* --------------------------------------------------- shutdown_trace_system
\* Task.cancel(): position and cancel mark of task w afterwards
CancelPc(w) == IF wpc[w] = "waiting" THEN "woken" ELSE wpc[w]

CancelMark(w) ==
    IF wpc[w] \in {"none", "done"} THEN wcancel[w]
    ELSE IF wpc[w] = "waiting" THEN "fut"
    ELSE IF wcancel[w] = "fut" THEN "fut"
    ELSE "must"

RECURSIVE CancelWake(_)
\* the tasks of list ts that Task.cancel() schedules: those suspended on a
\* pending future, in list order
CancelWake(ts) ==
    IF ts = <<>> THEN <<>>
    ELSE (IF wpc[Head(ts)] = "waiting" THEN << WTask(Head(ts)) >> ELSE <<>>) \o CancelWake(Tail(ts))

Truthy_always(x) == TRUE

\* lines 201, 209: "if x:" on a global that is None or an object
Truthy(x) == x # None

GatherDone_nowait == TRUE

\* line 198: asyncio.gather(*trace_consumers) has completed
GatherDone == \A w \in Range(trace_consumers) : wpc[w] = "done"

\* the items in queue q, none when there is no queue
QueuedItems(q) == IF q = None THEN <<>> ELSE queues[q].items

\* an exception leaves shutdown_trace_system
sd_raise ==
    /\ sd_raised' = TRUE
    /\ sd_pc' = "idle"
    /\ sd_count' = sd_count + 1
    /\ sd_streak' = sd_streak + 1
    /\ sd_q' = None
    /\ sd_items' = <<>>

\* lines 190-198: cancel every consumer, then await gather if there are any
sd_call ==
    /\ ~Busy
    /\ sd_pc = "idle"
    /\ sd_count < MaxShutdowns
    /\ wpc' = [w \in Workers |-> IF w \in Range(trace_consumers) THEN CancelPc(w) ELSE wpc[w]]
    /\ wcancel' = [w \in Workers |-> IF w \in Range(trace_consumers) THEN CancelMark(w) ELSE wcancel[w]]
    /\ ready' = ready \o CancelWake(trace_consumers)
    /\ sd_pc' = IF Len(trace_consumers) > 0 THEN "gather" ELSE "L201"
    /\ sd_items' = QueuedItems(trace_queue)
    /\ UNCHANGED << is_console, queue_maxsize, entry_vars, web_vars, router_vars, decoder_vars, lifecycle_vars, queues, wq, witem, sd_q, sd_count, sd_streak,
                    sd_raised, call_vars, log_vars >>

\* line 198: gather returns
sd_gather_done ==
    /\ ~Busy
    /\ sd_pc = "gather"
    /\ GatherDone
    /\ sd_pc' = "L201"
    /\ UNCHANGED << is_console, queue_maxsize, entry_vars, web_vars, router_vars, decoder_vars, lifecycle_vars, queues, worker_vars, sd_q, sd_count, sd_streak,
                    sd_raised, sd_items, call_vars, log_vars >>

\* lines 201-204: start the bounded wait for trace_queue.join()
sd_check_queue ==
    /\ sd_pc = "L201"
    /\ IF Truthy(trace_queue)
       THEN IF trace_queue = None
            THEN sd_raise
            ELSE /\ sd_pc' = "join"
                 /\ sd_q' = trace_queue
                 /\ UNCHANGED << sd_count, sd_streak, sd_raised, sd_items >>
       ELSE /\ sd_pc' = "L209"
            /\ UNCHANGED << sd_q, sd_count, sd_streak, sd_raised, sd_items >>
    /\ UNCHANGED << is_console, queue_maxsize, entry_vars, web_vars, router_vars, decoder_vars, lifecycle_vars, queues, worker_vars, call_vars, log_vars >>

\* line 204: join() completes, every put item was marked done
sd_join_done ==
    /\ ~Busy
    /\ sd_pc = "join"
    /\ queues[sd_q].unfinished = 0
    /\ sd_pc' = "L209"
    /\ UNCHANGED << is_console, queue_maxsize, entry_vars, web_vars, router_vars, decoder_vars, lifecycle_vars, queues, worker_vars, sd_q, sd_count, sd_streak,
                    sd_raised, sd_items, call_vars, log_vars >>

sd_join_forever == FALSE

\* lines 205-206: the 5 second timeout expires first
sd_join_timeout ==
    /\ ~Busy
    /\ sd_pc = "join"
    /\ queues[sd_q].unfinished > 0
    /\ sd_pc' = "L209"
    /\ UNCHANGED << is_console, queue_maxsize, entry_vars, web_vars, router_vars, decoder_vars, lifecycle_vars, queues, worker_vars, sd_q, sd_count, sd_streak,
                    sd_raised, sd_items, call_vars, log_vars >>

\* lines 209-210: close the shared ClientSession
sd_close_session ==
    /\ sd_pc = "L209"
    /\ IF Truthy(trace_session)
       THEN IF trace_session = None
            THEN sd_raise /\ UNCHANGED session_closed
            ELSE /\ session_closed' = [session_closed EXCEPT ![trace_session] = TRUE]
                 /\ sd_pc' = "close"
                 /\ UNCHANGED << sd_q, sd_count, sd_streak, sd_raised, sd_items >>
       ELSE /\ sd_pc' = "L213"
            /\ UNCHANGED << session_closed, sd_q, sd_count, sd_streak, sd_raised, sd_items >>
    /\ UNCHANGED << is_console, queue_maxsize, entry_vars, web_vars, router_vars, decoder_vars, trace_queue, trace_session, trace_consumers, ngen, queues,
                    worker_vars, call_vars, log_vars >>

\* line 210: session.close() returns
sd_close_done ==
    /\ ~Busy
    /\ sd_pc = "close"
    /\ sd_pc' = "L213"
    /\ UNCHANGED << is_console, queue_maxsize, entry_vars, web_vars, router_vars, decoder_vars, lifecycle_vars, queues, worker_vars, sd_q, sd_count, sd_streak,
                    sd_raised, sd_items, call_vars, log_vars >>

ResetConsumers_keep == trace_consumers

\* line 213: trace_consumers.clear()
ResetConsumers == <<>>

\* lines 212-217: reset the globals and return
sd_reset ==
    /\ sd_pc = "L213"
    /\ trace_consumers' = ResetConsumers
    /\ trace_queue' = None
    /\ trace_session' = None
    /\ sd_pc' = "idle"
    /\ sd_q' = None
    /\ sd_items' = <<>>
    /\ sd_count' = sd_count + 1
    /\ sd_streak' = sd_streak + 1
    /\ UNCHANGED << is_console, queue_maxsize, entry_vars, web_vars, router_vars, decoder_vars, ngen, session_closed, queues, worker_vars, sd_raised,
                    call_vars, log_vars >>

\* ------------------------------------------------ conversation event router
\* entries of the event loop's ready queue: the task of event e
ETask(e) == << "on_conversation_item_added", e >>

\* the write_trace calls of event e: the first one it makes, and the second
FirstCall(e) == 2 * e - 1
SecondCall(e) == 2 * e
EventOf(c) == (c + 1) \div 2

ConsentRecorded_unlessFalse(consent) == consent # "False"

\* line 156: "if session.userdata.consent_to_record:"
ConsentRecorded(consent) == consent = "True"

ConsentRead_cached == IF consent_granted THEN "True" ELSE consent_to_record

\* line 156: the value of session.userdata.consent_to_record when the task
\* of an event runs
ConsentRead == consent_to_record

\* ResponseFormat(**parsed) validates: the three fields are there with
\* their types
ResponseFormatValid(parsed) ==
    /\ parsed.kind = "dict"
    /\ {KEY_FRUSTRATION, KEY_ATTEMPTS, KEY_RESPONSE} \subseteq DOMAIN parsed.dict
    /\ parsed.dict[KEY_FRUSTRATION].type = "str"
    /\ parsed.dict[KEY_FRUSTRATION].str \in FrustrationLevel
    /\ parsed.dict[KEY_ATTEMPTS].type = "int"
    /\ parsed.dict[KEY_RESPONSE].type = "str"

\* ResponseFormat objects
ResponseFormat(frustration, attempts, response) ==
    [user_frustration_level |-> frustration, number_of_attempts |-> attempts,
     response |-> response]

\* lines 168-172: the fallback record
FallbackResponse ==
    ResponseFormat(<< "medium" >>, -1, << "Can you say that again, please?" >>)

\* lines 160-163: the exception raised for the text of an assistant turn
ParseFailure(text) ==
    LET parsed == from_json(text) IN
    IF parsed.kind = "error" THEN "ValueError"
    ELSE IF parsed.kind = "other" THEN "TypeError"
    ELSE IF ~ResponseFormatValid(parsed) THEN "ValidationError"
    ELSE "none"

CaughtByExcept_valueError(exc) == exc = "ValueError"

\* line 164: "except Exception"
CaughtByExcept(exc) == TRUE

\* lines 160-174: the assistant_response built from the text of the turn
AssistantResponse(text) ==
    LET parsed == from_json(text) IN
    IF ResponseFormatValid(parsed)
    THEN ResponseFormat(parsed.dict[KEY_FRUSTRATION].str, parsed.dict[KEY_ATTEMPTS].num,
                        parsed.dict[KEY_RESPONSE].str)
    ELSE FallbackResponse

\* model_dump(exclude={"response"})
Reasoning(r) ==
    [user_frustration_level |-> r.user_frustration_level,
     number_of_attempts |-> r.number_of_attempts]

\* lines 157-174 and 182: the content of the turn
Content(it) ==
    IF it.role = ROLE_ASSISTANT THEN AssistantResponse(it.text_content).response
    ELSE it.text_content

ContentMessageType_agent(it) == MESSAGE_TYPE_AGENT

\* line 182
ContentMessageType(it) ==
    IF it.role = ROLE_ASSISTANT THEN MESSAGE_TYPE_AGENT ELSE MESSAGE_TYPE_USER

\* lines 175-180: arguments of the reasoning write_trace
ReasoningItem == TraceItem(MESSAGE_TYPE_REASONING_USER_RESPONSE, FALSE, FALSE, FALSE)
ReasoningMessage(it) == Reasoning(AssistantResponse(it.text_content))

\* lines 183-189: arguments of the content write_trace
ContentItem(it) == TraceItem(ContentMessageType(it), TRUE, FALSE, TRUE)
ContentMessage(it) == [text |-> Content(it)]

\* the session emits conversation_item_added: conversation_item_handler
\* creates the task on_conversation_item_added(event, session)
conversation_item_added(it) ==
    /\ ~Busy
    /\ ngen >= 1
    /\ nev < MaxEvents
    /\ LET e == nev + 1 IN
       /\ nev' = e
       /\ ev' = [ev EXCEPT ![e] = it]
       /\ epc' = [epc EXCEPT ![e] = "scheduled"]
       /\ ready' = Append(ready, ETask(e))
    /\ UNCHANGED << is_console, queue_maxsize, entry_vars, web_vars, lifecycle_vars, shutdown_vars, queues, wpc, wcancel, wq, witem,
                    call_vars, log_vars, consent_to_record, consent_granted, e_consent,
                    message, exit_vars, decoder_vars >>

\* Assistant.save_consent_to_record(consent_to_record): the tool the
\* language model calls with the user's answer
save_consent_to_record(consent) ==
    /\ ~Busy
    /\ ngen >= 1
    /\ consent_to_record' = (IF consent THEN "True" ELSE "False")
    /\ consent_granted' = (consent_granted \/ consent)
    /\ UNCHANGED << is_console, queue_maxsize, entry_vars, web_vars, lifecycle_vars, shutdown_vars, queues, worker_vars,
                    call_vars, log_vars, nev, ev, epc, e_consent, message, exit_vars,
                    decoder_vars >>

\* position of the task of event e after its write_trace call c was run:
\* suspended in put(), about to make the content call, or finished
AfterCall(e, c, blocked, reasoning) ==
    IF blocked THEN (IF reasoning THEN "reasoning" ELSE "content")
    ELSE IF reasoning THEN "L182"
    ELSE "done"

\* lines 152-180: the task of event e runs: the consent test, and with
\* consent the first write_trace call (reasoning for an assistant turn, the
\* content for a user turn)
on_conversation_item_added(e) ==
    /\ ~Busy
    /\ epc[e] = "scheduled"
    /\ IsNext(ETask(e))
    /\ e_consent' = [e_consent EXCEPT ![e] = consent_to_record]
    /\ IF ~ConsentRecorded(ConsentRead)
       THEN /\ epc' = [epc EXCEPT ![e] = "done"]
            /\ ready' = Tail(ready)
            /\ UNCHANGED << item, message, cpc, cq, creport, queues, wpc >>
       ELSE IF /\ ev[e].role = ROLE_ASSISTANT
               /\ ParseFailure(ev[e].text_content) # "none"
               /\ ~CaughtByExcept(ParseFailure(ev[e].text_content))
       THEN \* the exception leaves the task
            /\ epc' = [epc EXCEPT ![e] = "failed"]
            /\ ready' = Tail(ready)
            /\ UNCHANGED << item, message, cpc, cq, creport, queues, wpc >>
       ELSE LET c == FirstCall(e)
                reasoning == ev[e].role = ROLE_ASSISTANT
            IN /\ item' = [item EXCEPT ![c] = IF reasoning THEN ReasoningItem
                                                ELSE ContentItem(ev[e])]
               /\ message' = [message EXCEPT ![c] = IF reasoning THEN ReasoningMessage(ev[e])
                                                      ELSE ContentMessage(ev[e])]
               /\ WriteTraceBody(c, Tail(ready))
               /\ epc' = [epc EXCEPT ![e] = AfterCall(e, c, cpc'[c] = "blocked", reasoning)]
    /\ UNCHANGED << is_console, queue_maxsize, entry_vars, web_vars, lifecycle_vars, shutdown_vars, wcancel, wq, witem, nsub,
                    log_vars, consent_to_record, consent_granted, exit_vars, nev, ev,
                    decoder_vars >>

\* lines 182-189: the content write_trace call of an assistant turn
router_content(e) ==
    /\ epc[e] = "L182"
    /\ LET c == SecondCall(e) IN
       /\ item' = [item EXCEPT ![c] = ContentItem(ev[e])]
       /\ message' = [message EXCEPT ![c] = ContentMessage(ev[e])]
       /\ WriteTraceBody(c, ready)
       /\ epc' = [epc EXCEPT ![e] = AfterCall(e, c, cpc'[c] = "blocked", FALSE)]
    /\ UNCHANGED << is_console, queue_maxsize, entry_vars, web_vars, lifecycle_vars, shutdown_vars, wcancel, wq, witem, nsub,
                    log_vars, consent_to_record, consent_granted, exit_vars, nev, ev, e_consent,
                    decoder_vars >>

\* the task of an event is resumed in put() of its call c after the putter
\* future was set: put() tests full() again
router_resume(c) ==
    /\ ~Busy
    /\ cpc[c] = "woken"
    /\ IsNext(CTask(c))
    /\ epc[EventOf(c)] \in {"reasoning", "content"}
    /\ QueuePut(cq[c], c, Tail(ready))
    /\ epc' = [epc EXCEPT ![EventOf(c)] =
                  AfterCall(EventOf(c), c, cpc'[c] = "blocked", epc[EventOf(c)] = "reasoning")]
    /\ UNCHANGED << is_console, queue_maxsize, entry_vars, web_vars, lifecycle_vars, shutdown_vars, wcancel, wq, witem, nsub, item,
                    cq, log_vars, consent_to_record, consent_granted, exit_vars, nev, ev, e_consent,
                    message, decoder_vars >>

Next ==
    \/ entrypoint_init
    \/ \E it \in ItemInputs : conversation_item_handler(it)
    \/ \E c \in Calls : write_trace(c)
    \/ \E c \in Calls : write_trace_resume(c)
    \/ \E w \in Workers : consumer_get(w)
    \/ \E w \in Workers : consumer_handle(w)
    \/ \E w \in Workers : consumer_cancelled(w)
    \/ sd_call
    \/ sd_gather_done
    \/ sd_check_queue
    \/ sd_join_done
    \/ sd_join_timeout
    \/ sd_close_session
    \/ sd_close_done
    \/ sd_reset

Spec == Init /\ [][Next]_vars

\* init_trace_system called by a caller that does not look at the state of
\* the trace system: also when it is initialised already
init_again ==
    /\ ~Busy
    /\ sd_pc = "idle"
    /\ ngen < MaxGen
    /\ init_trace_system
    /\ UNCHANGED entry_vars

\* any sequence of init_trace_system and shutdown_trace_system calls, with
\* write_trace calls in between
NextReinit ==
    \/ init_again
    \/ \E it \in ItemInputs : conversation_item_handler(it)
    \/ \E c \in Calls : write_trace(c)
    \/ \E c \in Calls : write_trace_resume(c)
    \/ \E w \in Workers : consumer_get(w)
    \/ \E w \in Workers : consumer_handle(w)
    \/ \E w \in Workers : consumer_cancelled(w)
    \/ sd_call
    \/ sd_gather_done
    \/ sd_check_queue
    \/ sd_join_done
    \/ sd_join_timeout
    \/ sd_close_session
    \/ sd_close_done
    \/ sd_reset

SpecReinit == Init /\ [][NextReinit]_vars

\* the steps the event loop takes by itself: it runs every task that is
\* ready, and a timeout that is due expires
LoopStep ==
    \/ \E c \in Calls : write_trace(c)
    \/ \E c \in Calls : write_trace_resume(c)
    \/ \E w \in Workers : consumer_get(w)
    \/ \E w \in Workers : consumer_handle(w)
    \/ \E w \in Workers : consumer_cancelled(w)
    \/ sd_gather_done
    \/ sd_check_queue
    \/ sd_join_done
    \/ sd_join_timeout
    \/ sd_close_session
    \/ sd_close_done
    \/ sd_reset

\* entrypoint in a process that runs one job: the trace system is
\* initialised once
entrypoint_once ==
    /\ ngen = 0
    /\ entrypoint_init

\* one job, its write_trace calls and the calls of shutdown_trace_system,
\* on an event loop that keeps running
NextJob ==
    \/ entrypoint_once
    \/ \E it \in ItemInputs : conversation_item_handler(it)
    \/ sd_call
    \/ LoopStep

SpecJob == Init /\ [][NextJob]_vars /\ WF_vars(LoopStep)

\* ------------------------------------------------ structured reply decoder
\* number of fragments of the document in its first n chunks
ChunkEnd(n) ==
    IF n = 0 THEN 0
    ELSE LET upto == chunking.first + (n - 1) * chunking.size
         IN IF upto > Len(document) THEN Len(document) ELSE upto

\* the n-th chunk of the token stream
Chunk(n) == SubSeq(document, ChunkEnd(n - 1) + 1, ChunkEnd(n))

\* number of chunks the whole document makes
NumChunks ==
    IF Len(document) = 0 THEN 0
    ELSE IF Len(document) <= chunking.first THEN 1
    ELSE 1 + ((Len(document) - chunking.first + chunking.size - 1) \div chunking.size)

\* the furthest any run has read
Furthest == IF dpos[1] > dpos[2] THEN dpos[1] ELSE dpos[2]

\* number of chunks of the token stream: all of the document, or what had
\* been read when the stream ended early
StreamChunks == IF stream_ended THEN Furthest ELSE NumChunks

\* line 67: resp.get("response") is None, "" or 0
ResponseMissing(parsed) ==
    \/ KEY_RESPONSE \notin DOMAIN parsed.dict
    \/ LET r == parsed.dict[KEY_RESPONSE]
       IN IF r.type = "str" THEN r.str = <<>> ELSE r.num = 0

DeltaFrom_start(response, last) == response

\* line 70: resp["response"][len(last_response):]
DeltaFrom(response, last) == Slice(response, Len(last))

LastResponseOf_shared(d) == last_response[1]

\* lines 57, 70: last_response is a local of the run
LastResponseOf(d) == last_response[d]

\* lines 53-58: a run of process_structured_output starts
process_structured_output(d) ==
    /\ drun[d] = "idle"
    /\ document # <<>>
    /\ drun' = [drun EXCEPT ![d] = "running"]
    /\ last_response' = [last_response EXCEPT ![d] = <<>>]
    /\ acc_text' = [acc_text EXCEPT ![d] = <<>>]
    /\ UNCHANGED << is_console, queue_maxsize, entry_vars, web_vars, lifecycle_vars, shutdown_vars, queues, worker_vars,
                    call_vars, log_vars, router_vars, document, chunking, stream_ended,
                    dpos, emitted >>

\* lines 60-73: one round of the loop of run d, for the next chunk
decoder_chunk(d) ==
    /\ drun[d] = "running"
    /\ dpos[d] < StreamChunks
    /\ dpos' = [dpos EXCEPT ![d] = @ + 1]
    /\ LET acc == acc_text[d] \o Chunk(dpos[d] + 1)
           parsed == from_json(acc)
       IN /\ acc_text' = [acc_text EXCEPT ![d] = acc]
          /\ IF parsed.kind = "error"
             THEN \* line 64: ValueError, wait for more text
                  UNCHANGED << drun, last_response, emitted >>
             ELSE IF parsed.kind = "other"
             THEN \* line 67: the value has no get(): AttributeError
                  /\ drun' = [drun EXCEPT ![d] = "raised"]
                  /\ UNCHANGED << last_response, emitted >>
             ELSE IF ResponseMissing(parsed)
             THEN UNCHANGED << drun, last_response, emitted >>
             ELSE IF parsed.dict[KEY_RESPONSE].type # "str"
             THEN \* line 70: a number cannot be sliced: TypeError
                  /\ drun' = [drun EXCEPT ![d] = "raised"]
                  /\ UNCHANGED << last_response, emitted >>
             ELSE LET response == parsed.dict[KEY_RESPONSE].str
                      new_delta == DeltaFrom(response, LastResponseOf(d))
                  IN /\ emitted' = IF new_delta # <<>>
                                   THEN [emitted EXCEPT ![d] = Append(@, new_delta)]
                                   ELSE emitted
                     /\ last_response' = [last_response EXCEPT ![d] = response]
                     /\ drun' = drun
    /\ UNCHANGED << is_console, queue_maxsize, entry_vars, web_vars, lifecycle_vars, shutdown_vars, queues, worker_vars,
                    call_vars, log_vars, router_vars, document, chunking, stream_ended >>

\* the token stream ends: the document is complete, or the model stops early
llm_end ==
    /\ ~stream_ended
    /\ document # <<>>
    /\ stream_ended' = TRUE
    /\ UNCHANGED << is_console, queue_maxsize, entry_vars, web_vars, lifecycle_vars, shutdown_vars, queues, worker_vars,
                    call_vars, log_vars, router_vars, document, chunking, drun, dpos,
                    acc_text, last_response, emitted >>

\* line 60: the stream is exhausted, the run ends
decoder_end(d) ==
    /\ drun[d] = "running"
    /\ stream_ended
    /\ dpos[d] = StreamChunks
    /\ drun' = [drun EXCEPT ![d] = "done"]
    /\ UNCHANGED << is_console, queue_maxsize, entry_vars, web_vars, lifecycle_vars, shutdown_vars, queues, worker_vars,
                    call_vars, log_vars, router_vars, document, chunking, stream_ended,
                    dpos, acc_text, last_response, emitted >>

\* fragments of response values
ValueFragments == { "Hi the", "re, how can I help?" }

RECURSIVE Strs(_)
\* the response values of up to n fragments
Strs(n) ==
    IF n = 0 THEN { <<>> }
    ELSE Strs(n - 1) \cup { Append(s, f) : s \in Strs(n - 1), f \in ValueFragments }

\* the members a reply starts with: none, or frustration level and attempts
Heads ==
    { <<>>,
      << JsonMember(KEY_FRUSTRATION, JsonString(<< "low" >>)),
         JsonMember(KEY_ATTEMPTS, << "1" >>) >> }

ResponseMembers == { JsonMember(KEY_RESPONSE, JsonString(s)) : s \in Strs(MaxStr) }

\* the response members of a reply: none, one, or two (the field is written
\* a second time)
Bodies ==
    { <<>> } \cup { << m >> : m \in ResponseMembers }
    \cup { << m, n >> : m \in ResponseMembers, n \in ResponseMembers }

\* the texts the language model streams
Documents == { JsonObject(h \o b) : h \in Heads, b \in Bodies }

\* a response member written a second time, with a value of at most one
\* fragment
RevisedMembers == { JsonMember(KEY_RESPONSE, JsonString(s)) : s \in Strs(1) }

\* the replies that start with the response member and revise it briefly
\* if at all
HeadlessDocuments ==
    { JsonObject(<<>>) } \cup { JsonObject(<< m >>) : m \in ResponseMembers }
    \cup { JsonObject(<< m, n >>) : m \in ResponseMembers, n \in RevisedMembers }

\* the ways the stream is cut into chunks
Chunkings ==
    { [first |-> k0, size |-> k] : k0 \in 1..MaxChunk, k \in 1..MaxChunk }

\* a reply is about to be streamed: one of docs, cut in one of the ways
InitDecoderOn(docs) ==
    /\ TraceInit /\ ~is_console
    /\ RouterInit /\ WebIdle /\ EntryIdle
    /\ document \in docs
    /\ chunking \in { c \in Chunkings : c.first <= c.size }
    /\ stream_ended = FALSE
    /\ drun = [d \in Runs |-> "idle"]
    /\ dpos = [d \in Runs |-> 0]
    /\ acc_text = [d \in Runs |-> <<>>]
    /\ last_response = [d \in Runs |-> <<>>]
    /\ emitted = [d \in Runs |-> <<>>]

\* one run of process_structured_output over every stream
InitDecoder == InitDecoderOn(Documents)

NextDecoder ==
    \/ process_structured_output(1)
    \/ decoder_chunk(1)
    \/ llm_end
    \/ decoder_end(1)

SpecDecoder == InitDecoder /\ [][NextDecoder]_vars

\* texts that are no JSON object with a string under "response": a bare
\* string, a list, a number, plain text, and an object whose response is a
\* number
OtherDocuments ==
    { JsonString(<< "Hi the", "re" >>),
      << "[", QUOTE, "Hi the", QUOTE, "]" >>,
      << "1" >>,
      << "Hi the", "re" >>,
      JsonObject(<< JsonMember(KEY_RESPONSE, << "1" >>) >>) }

\* one run over any text the language model may stream
InitDecoderAny == InitDecoderOn(HeadlessDocuments \cup OtherDocuments)

SpecDecoderAny == InitDecoderAny /\ [][NextDecoder]_vars

\* two runs over the same stream, in any interleaving
InitDecoderRuns == InitDecoderOn(HeadlessDocuments)

NextDecoderRuns ==
    \/ \E d \in Runs : process_structured_output(d)
    \/ \E d \in Runs : decoder_chunk(d)
    \/ llm_end
    \/ \E d \in Runs : decoder_end(d)

SpecDecoderRuns == InitDecoderRuns /\ [][NextDecoderRuns]_vars

\* ------------------------------------------- the session of one deployed job
\* a structured reply as the language model writes it
ReplyText(response) ==
    JsonObject(<< JsonMember(KEY_FRUSTRATION, JsonString(<< "low" >>)),
                  JsonMember(KEY_ATTEMPTS, << "1" >>),
                  JsonMember(KEY_RESPONSE, JsonString(response)) >>)

\* texts of assistant turns: a structured reply, a reply without its
\* frustration field, and plain text
AssistantTexts ==
    { ReplyText(<< "Hi the", "re, how can I help?" >>),
      JsonObject(<< JsonMember(KEY_ATTEMPTS, << "1" >>),
                    JsonMember(KEY_RESPONSE, JsonString(<< "Hi the" >>)) >>),
      << "Hi the" >> }

\* the conversation items explored
RouterInputs ==
    { ConversationItem(ROLE_USER, << "Hi the" >>) }
    \cup { ConversationItem(ROLE_ASSISTANT, t) : t \in AssistantTexts }

InitRouter == TraceInit /\ ~is_console /\ RouterInit /\ WebIdle /\ EntryIdle /\ DecoderIdle

NextRouter ==
    \/ entrypoint_init
    \/ \E it \in RouterInputs : conversation_item_added(it)
    \/ \E consent \in BOOLEAN : save_consent_to_record(consent)
    \/ \E e \in Events : on_conversation_item_added(e)
    \/ \E e \in Events : router_content(e)
    \/ \E c \in Calls : router_resume(c)
    \/ \E w \in Workers : consumer_get(w)
    \/ \E w \in Workers : consumer_handle(w)

SpecRouter == InitRouter /\ [][NextRouter]_vars

\* ------------------------------------------------------------- session end
\* session.py lines 80-86: notify_session_end returns without a request
NotifySkipped(is_unit_test, console) == (~is_unit_test) /\ console

ExitNotifies_always(consent) == TRUE

\* agent.py line 224: on_exit calls notify_session_end
ExitNotifies(consent) == consent = "True"

\* agent.py lines 222-225 with session.py lines 76-119: the agent leaves
\* the session, once; notify_session_end posts to the backend (a failure of
\* the request is logged, lines 112-119)
on_exit ==
    /\ ~Busy
    /\ ngen >= 1
    /\ exit_consent = ""
    /\ exit_consent' = consent_to_record
    /\ notified' = IF ExitNotifies(consent_to_record) /\ ~NotifySkipped(FALSE, is_console)
                    THEN notified + 1
                    ELSE notified
    /\ UNCHANGED << is_console, queue_maxsize, entry_vars, web_vars, lifecycle_vars, shutdown_vars, queues, worker_vars,
                    call_vars, log_vars, consent_to_record, consent_granted, nev, ev, epc,
                    e_consent, message, decoder_vars >>

\* a session in console or in deployed mode, from its first turn to the
\* exit of the agent
InitSession == TraceInit /\ RouterInit /\ WebIdle /\ EntryIdle /\ DecoderIdle

NextSession ==
    \/ entrypoint_init
    \/ \E it \in RouterInputs : conversation_item_added(it)
    \/ \E consent \in BOOLEAN : save_consent_to_record(consent)
    \/ \E e \in Events : on_conversation_item_added(e)
    \/ \E e \in Events : router_content(e)
    \/ \E c \in Calls : router_resume(c)
    \/ \E w \in Workers : consumer_get(w)
    \/ \E w \in Workers : consumer_handle(w)
    \/ on_exit

SpecSession == InitSession /\ [][NextSession]_vars

\* ============================================================ web service
\* web_service.py: POST /api/v1/dispatch-call. A text is the sequence of
\* its characters.

\* web_service.py:34, the key the service is configured with when the
\* environment gives none
API_KEY == "your-secure-api-key-here"

\* names longer than this are refused (web_service.py:68)
MaxNameLength == 50

\* number of digits of a national number (dispatch_call.py:34); one more
\* with the country code (line 37)
NationalDigits == 10

Digit == { "0", "1", "2", "3", "4", "5", "6", "7", "8", "9" }

\* str.strip(), of a text whose only whitespace is the space
Strip(s) ==
    LET keep == { i \in 1..Len(s) : s[i] # " " }
    IN  IF keep = {}
        THEN <<>>
        ELSE SubSeq(s, CHOOSE i \in keep : \A j \in keep : i <= j,
                       CHOOSE i \in keep : \A j \in keep : j <= i)

\* what validate_phone_number returns for a rejected number (None)
NoPhone == <<>>

\* dispatch_call.py validate_phone_number; matches is the re.match of
\* r'^\+1[2-9]\d{2}[2-9]\d{6}$' at line 44
validate_phone_number(phone) ==
    LET digits_only == SelectSeq(phone, LAMBDA ch : ch \in Digit)
        formatted == IF Len(digits_only) = NationalDigits
                     THEN << "+", "1" >> \o digits_only
                     ELSE IF Len(digits_only) = NationalDigits + 1 /\ digits_only[1] = "1"
                          THEN << "+" >> \o digits_only
                          ELSE NoPhone
        matches == /\ Len(formatted) = NationalDigits + 2
                   /\ formatted[1] = "+"
                   /\ formatted[2] = "1"
                   /\ formatted[3] \in Digit \ { "0", "1" }
                   /\ \A i \in 4..5 : formatted[i] \in Digit
                   /\ formatted[6] \in Digit \ { "0", "1" }
                   /\ \A i \in 7..(NationalDigits + 2) : formatted[i] \in Digit
    IN  IF formatted # NoPhone /\ matches THEN formatted ELSE NoPhone

required_fields == << "first_name", "last_name", "phone_number" >>

\* not data.get(field): the key is absent, or its value is the empty
\* string or the number 0
FieldMissing(data, field) ==
    \/ field \notin DOMAIN data
    \/ IF data[field].type = "str" THEN data[field].str = <<>> ELSE data[field].num = 0

\* validate_request_data: the message it returns, "None" when it returns
\* None, "AttributeError" when .strip() is called on a value that is not a
\* string
validate_request_data(data) ==
    IF \E i \in 1..Len(required_fields) : FieldMissing(data, required_fields[i])
    THEN "Missing required field"
    ELSE IF data["first_name"].type # "str" \/ data["last_name"].type # "str"
    THEN "AttributeError"
    ELSE LET first_name == Strip(data["first_name"].str)
             last_name == Strip(data["last_name"].str)
         IN  IF Len(first_name) < 1 \/ Len(last_name) < 1
             THEN "First name and last name must be at least 1 character"
             ELSE IF Len(first_name) > MaxNameLength \/ Len(last_name) > MaxNameLength
             THEN "Names must be less than 50 characters"
             ELSE "None"

\* the ways lines 168-255 can go: how the run of the lk dispatch command
\* ends (line 190), or that it is not found, the CLI is installed or not,
\* and how the run after a successful installation ends (line 240)
DispatchResults ==
    { << r >> : r \in { "returncode 0", "returncode 1", "TimeoutExpired", "Exception" } }
    \cup { << "FileNotFoundError", "not installed" >> }
    \cup { << "FileNotFoundError", "installed", r >> :
              r \in { "returncode 0", "returncode 1", "TimeoutExpired" } }

\* the subprocess calls of lines 168-255 and how they end
DispatchTrail(result) ==
    IF Len(result) < 3
    THEN << "subprocess.run(command)" >> \o result
    ELSE << "subprocess.run(command)", result[1], result[2], "subprocess.run(command)",
            result[3] >>

dispatch_success_always(result) == TRUE

\* lines 198-200 and 241: the last run of the command ended with code 0
dispatch_success(result) == result[Len(result)] = "returncode 0"

Response(code, calls) == [status |-> code, trail |-> calls]

\* the request carries the configured key (the negation of line 43)
Authorized_anyKey(headers) ==
    /\ "X-API-Key" \in DOMAIN headers
    /\ headers["X-API-Key"] # ""

Authorized(headers) ==
    /\ "X-API-Key" \in DOMAIN headers
    /\ headers["X-API-Key"] # ""
    /\ headers["X-API-Key"] = API_KEY

\* the body of dispatch_call (lines 98-291): the status it answers with and
\* the calls it makes on the way
DispatchCall(req, configured, result) ==
    IF ~req.is_json THEN Response(400, <<>>)
    ELSE IF req.json = "malformed" THEN Response(500, << "get_json" >>)
    ELSE IF req.json # "object"
    THEN Response(500, << "get_json", "validate_request_data" >>)
    ELSE LET data == req.data
             validation_error == validate_request_data(data)
             parsed == << "get_json", "validate_request_data" >>
         IN  IF validation_error = "AttributeError" THEN Response(500, parsed)
             ELSE IF validation_error # "None" THEN Response(400, parsed)
             ELSE IF data["phone_number"].type # "str" THEN Response(500, parsed)
             ELSE LET phone_number == Strip(data["phone_number"].str)
                      checked == Append(parsed, "validate_phone_number")
                  IN  IF validate_phone_number(phone_number) = NoPhone
                      THEN Response(400, checked)
                      ELSE IF ~configured THEN Response(500, checked)
                      ELSE Response(IF dispatch_success(result) THEN 200 ELSE 500,
                                    checked \o DispatchTrail(result))

\* ------------------------------------------------------------ the requests
\* a key the JSON object does not have
Absent == [type |-> "absent", str |-> <<>>, num |-> 0]

WithField(d, k, v) == IF v = Absent THEN d ELSE DictSet(d, k, v)

LongName == [i \in 1..(MaxNameLength + 1) |-> "x"]

ValidNational == << "2", "1", "2", "5", "5", "5", "1", "2", "3", "4" >>

PhoneNumbers ==
    { Absent, StrVal(<<>>), StrVal(<< " " >>), NumVal(5),
      StrVal(ValidNational),
      StrVal(<< "1" >> \o ValidNational),
      StrVal(<< "+", "1", " ", "(" >> \o SubSeq(ValidNational, 1, 3) \o << ")", " " >>
             \o SubSeq(ValidNational, 4, 6) \o << "-" >> \o SubSeq(ValidNational, 7, 10)),
      StrVal(<< " " >> \o ValidNational \o << " " >>),
      StrVal(SubSeq(ValidNational, 1, 9)),
      StrVal(<< "2" >> \o ValidNational),
      StrVal(<< "5", "5", "5", "1", "2", "3", "4", "5", "6", "7", "8", "9" >>),
      StrVal([ValidNational EXCEPT ![1] = "0"]),
      StrVal([ValidNational EXCEPT ![1] = "1"]),
      StrVal([ValidNational EXCEPT ![4] = "0"]),
      StrVal([ValidNational EXCEPT ![4] = "1"]) }

Payloads ==
    { WithField(WithField(WithField(EmptyDict, "first_name", fn), "last_name", ln),
                "phone_number", ph) :
        fn \in { Absent, StrVal(<< "J", "o", "h", "n" >>), StrVal(<<>>), StrVal(<< " " >>),
                 StrVal(LongName), NumVal(5) },
        ln \in { Absent, StrVal(<< "S", "m", "i", "t", "h" >>), StrVal(Tail(LongName)),
                 NumVal(0) },
        ph \in PhoneNumbers }

Requests ==
    LET Headers == { NoHeaders } \cup
                   { [k \in { "X-API-Key" } |-> v] : v \in { "", "not-the-key", API_KEY } }
    IN  [headers : Headers, is_json : BOOLEAN, json : { "object" }, data : Payloads]
        \cup [headers : Headers, is_json : BOOLEAN, json : { "array", "malformed" },
              data : { EmptyDict }]

\* decorated_function (lines 41-49): 401, or on to the view function
require_api_key ==
    /\ http_pc = "received"
    /\ IF Authorized(request.headers)
       THEN /\ http_pc' = "handler"
            /\ UNCHANGED status
       ELSE /\ http_pc' = "responded"
            /\ status' = 401
    /\ UNCHANGED << is_console, queue_maxsize, entry_vars, lifecycle_vars, shutdown_vars, queues,
                    worker_vars, call_vars, log_vars, router_vars, decoder_vars, request,
                    trail, livekit_configured >>

\* dispatch_call (lines 86-291), called by decorated_function at line 49
dispatch_call(result) ==
    /\ http_pc = "handler"
    /\ LET response == DispatchCall(request, livekit_configured, result)
       IN  /\ status' = response.status
           /\ trail' = response.trail
    /\ http_pc' = "responded"
    /\ UNCHANGED << is_console, queue_maxsize, entry_vars, lifecycle_vars, shutdown_vars, queues,
                    worker_vars, call_vars, log_vars, router_vars, decoder_vars, request,
                    livekit_configured >>

\* one request to the dispatch endpoint, with the LiveKit credentials set
\* or not
InitWeb ==
    /\ TraceInit /\ ~is_console /\ RouterInit /\ EntryIdle /\ DecoderIdle
    /\ request \in Requests
    /\ http_pc = "received"
    /\ status = 0
    /\ trail = <<>>
    /\ livekit_configured \in BOOLEAN

NextWeb ==
    \/ require_api_key
    \/ \E result \in DispatchResults : dispatch_call(result)

SpecWeb == InitWeb /\ [][NextWeb]_vars

\* ================================================================== claims
\* generation (init_trace_system call) that created consumer task w
GenOf(w) == ((w - 1) \div N_WRITE_TRACE_CONSUMERS) + 1

\* the write_trace calls that reached put() on queue object g, in call order
CallsOn(g) == { c \in Calls : cq[c] = g }

\* number of calls on queue g made before call c
RankOn(g, c) == Cardinality({ d \in CallsOn(g) : d < c })

AliveWorkers == { w \in Workers : Alive(w) }

\* C1: write_trace never suspends its caller: a call made while the queue is
\* full returns at once (the item being dropped), so no write_trace call is
\* ever waiting for queue space.
C1_WriteTraceNeverSuspends ==
    \A c \in Calls : cpc[c] \in {"none", "scheduled", "returned"}

\* C2: while no consumer has taken anything from the queue, the queue holds
\* exactly the first QueueMaxSize submitted items in submission order and
\* every later call has returned with its item dropped and reported.
C2_EarliestRetainedLaterDropped ==
    (/\ trace_queue # None
     /\ \A c \in CallsOn(trace_queue) : taken[c] = 0)
    => /\ \A c \in CallsOn(trace_queue) :
            RankOn(trace_queue, c) < QueueMaxSize
            => /\ Len(queues[trace_queue].items) > RankOn(trace_queue, c)
               /\ queues[trace_queue].items[RankOn(trace_queue, c) + 1] = c
       /\ \A c \in CallsOn(trace_queue) :
            RankOn(trace_queue, c) >= QueueMaxSize
            => /\ cpc[c] = "returned"
               /\ creport[c] = "queue_full"

\* C3: write_trace run while the trace system is not initialised returns,
\* reports the error, and changes neither the queues nor the lifecycle
\* globals.
C3_WriteTraceBeforeInitIsNoOp ==
    [][\A c \in Calls :
          (cpc[c] = "scheduled" /\ cpc'[c] # "scheduled" /\ trace_queue = None)
          => /\ cpc'[c] = "returned"
             /\ creport'[c] = "not_initialized"
             /\ cq'[c] = None
             /\ UNCHANGED << queues, trace_queue, trace_session, trace_consumers, wpc >>]_vars

C3_Witness ==
    \E c \in Calls : cpc[c] = "returned" /\ creport[c] = "not_initialized"

\* the consumers of the current generation are exactly the live tasks, and
\* those that are suspended are suspended in get() of the current queue
ConsumersOnCurrentQueue ==
    (trace_queue # None /\ sd_pc = "idle")
    => /\ AliveWorkers = Range(trace_consumers)
       /\ Cardinality(AliveWorkers) = N_WRITE_TRACE_CONSUMERS
       /\ queues[trace_queue].maxsize = QueueMaxSize
       /\ \A w \in AliveWorkers :
            wpc[w] = "waiting"
            => wq[w] = trace_queue /\ w \in Range(queues[trace_queue].getters)

\* C4: when init_trace_system returns there is one empty queue of capacity
\* QueueMaxSize and exactly N_WRITE_TRACE_CONSUMERS consumer tasks are live,
\* all bound to that queue; this stays so until shutdown is called.
C4_InitCreatesQueueAndConsumers ==
    [][/\ (ngen' # ngen)
          => /\ trace_queue' = ngen'
             /\ queues'[trace_queue'] = NewQueue(QueueMaxSize)
             /\ Len(trace_consumers') = N_WRITE_TRACE_CONSUMERS
             /\ \A w \in Range(trace_consumers') : wpc'[w] = "start" /\ wcancel'[w] = "no"
       /\ ConsumersOnCurrentQueue']_vars

C4_Witness ==
    /\ trace_queue # None
    /\ sd_pc = "idle"
    /\ Len(queues[trace_queue].getters) = N_WRITE_TRACE_CONSUMERS
    /\ \A w \in Range(trace_consumers) : wpc[w] = "waiting" /\ wq[w] = trace_queue
    /\ queues[trace_queue].items = <<>>

\* C5: no call of shutdown_trace_system raises, also not the second of two
\* calls in succession, and once a call has returned no consumer task is
\* running.
C5_ShutdownTwice ==
    /\ ~sd_raised
    /\ sd_streak >= 1 => AliveWorkers = {}

C5_Witness ==
    /\ sd_streak = 2
    /\ ngen >= 1
    /\ sd_pc = "idle"
    /\ \E w \in Workers : wpc[w] = "done"

\* C6: shutdown_trace_system keeps its order: every consumer is cancelled,
\* all have terminated before the drain wait starts, the session is closed
\* only after that wait is over, and the globals are reset only after the
\* session is closed.
C6_ShutdownOrder ==
    /\ sd_pc # "idle"
       => \A w \in Range(trace_consumers) : wcancel[w] # "no"
    /\ sd_pc \in {"L201", "join", "L209", "close", "L213"}
       => \A w \in Range(trace_consumers) : wpc[w] = "done"
    /\ (sd_pc \in {"gather", "L201", "join", "L209"} /\ trace_session # None)
       => ~session_closed[trace_session]
    /\ (sd_pc \in {"close", "L213"} /\ trace_session # None)
       => session_closed[trace_session]
    /\ \A g \in 1..ngen : g # trace_session => session_closed[g]
    /\ sd_pc \in {"gather", "join", "close"}
       => (trace_queue # None /\ trace_session # None)

C6_Witness ==
    /\ sd_pc = "join"
    /\ queues[sd_q].unfinished > 0
    /\ ~session_closed[trace_session]
    /\ \A w \in Range(trace_consumers) : wpc[w] = "done"

\* no consumer ever takes an item submitted to the queue of another generation
NoCrossGeneration ==
    /\ \A c \in Calls : taken[c] > 0 => GenOf(taker[c]) = cq[c]
    /\ \A g \in Gens : \A i \in 1..Len(queues[g].items) : cq[queues[g].items[i]] = g

\* C7: when shutdown_trace_system returns the lifecycle state is reset (no
\* queue, no session, empty consumer list, no live consumer); an
\* init_trace_system that follows gives N_WRITE_TRACE_CONSUMERS fresh live
\* consumers on a fresh empty queue and an open session, every earlier
\* session is closed, and nothing of an earlier generation is ever taken.
C7_ShutdownResetsAndReinitIsClean ==
    [][/\ (sd_pc # "idle" /\ sd_pc' = "idle")
          => /\ trace_queue' = None
             /\ trace_session' = None
             /\ trace_consumers' = <<>>
             /\ { w \in Workers : Alive(w)' } = {}
       /\ (ngen' # ngen /\ ngen >= 1)
          => /\ queues'[trace_queue'] = NewQueue(QueueMaxSize)
             /\ trace_session' = trace_queue'
             /\ ~session_closed'[trace_session']
             /\ \A g \in 1..ngen : session_closed'[g]
             /\ { w \in Workers : Alive(w)' } = Range(trace_consumers')
             /\ Cardinality(Range(trace_consumers')) = N_WRITE_TRACE_CONSUMERS
             /\ \A w \in Range(trace_consumers') : wpc[w] = "none"
       /\ NoCrossGeneration']_vars

C7_Witness ==
    /\ ngen = 2
    /\ trace_queue = 2
    /\ \E c \in Calls : cq[c] = 1 /\ creport[c] = "enqueued" /\ taken[c] = 0
    /\ \E c \in Calls : cq[c] = 2 /\ taken[c] = 1 /\ outcome[c] # "none"
    /\ \A w \in Range(trace_consumers) : Alive(w)

\* number of places (queues, consumers' hands) where item c currently is
Holders(c) ==
    Cardinality({ w \in Workers : wpc[w] = "handle" /\ witem[w] = c })
    + Cardinality({ << g, i >> \in Gens \X (1..MaxCalls) :
                      i <= Len(queues[g].items) /\ queues[g].items[i] = c })

\* C8: every item is taken by at most one consumer and handled at most once:
\* it is never in two places, never back in a queue after it was taken, and
\* never marked done or delivered twice.
C8_AtMostOnce ==
    \A c \in Calls :
        /\ taken[c] <= 1
        /\ done_marks[c] <= 1
        /\ Holders(c) <= 1
        /\ taken[c] = 1 => \A g \in Gens : c \notin Range(queues[g].items)
        /\ outcome[c] # "none" => (taken[c] = 1 /\ Holders(c) = 0)

C8_Witness ==
    \E c, d \in Calls :
        /\ c # d
        /\ cq[c] = cq[d]
        /\ outcome[c] # "none" /\ outcome[d] # "none"
        /\ taker[c] # taker[d]

\* C9: an error raised while a consumer handles an item does not end the
\* consumer: it is back at the top of its loop, about to call get() again,
\* and a consumer only ever terminates through cancellation.
C9_ErrorDoesNotKillWorker ==
    [][/\ \A w \in Workers :
            (wpc[w] = "handle" /\ outcome'[witem[w]] \in {"error", "done_error"})
            => wpc'[w] = "loop"
       /\ \A w \in Workers : wpc'[w] = "done" => wcancel'[w] = "cancelled"]_vars

C9_Witness ==
    \E c, d \in Calls :
        /\ c < d
        /\ outcome[c] = "error"
        /\ taker[c] = taker[d]
        /\ taken[d] = 1
        /\ outcome[d] # "none"

\* C10: a consumer whose cancellation was requested terminates at its next
\* run without taking an item, and a cancelled consumer never runs again.
C10_CancelledWorkerTerminates ==
    [][/\ \A w \in Workers :
            (wcancel[w] \in {"must", "fut"} /\ wpc'[w] # wpc[w])
            => /\ wpc'[w] = "done"
               /\ taken' = taken
               /\ witem' = witem
       /\ \A w \in Workers :
            wcancel'[w] # "no" => wpc'[w] \in {"start", "woken", "done"}
       /\ \A w \in Workers : wcancel'[w] = "cancelled" => wpc'[w] = "done"]_vars

C10_Witness ==
    \E w, v \in Workers :
        /\ wpc[w] = "done" /\ wcancel[w] = "cancelled"
        /\ wpc[v] = "woken" /\ wcancel[v] = "must"
        /\ ~Empty(queues[wq[v]])
        /\ \E u \in Workers : wpc[u] = "woken" /\ wcancel[u] = "fut"

\* ---------------------------------------------------------------- router
\* the write_trace calls made so far for event e
CallsOf(e) == { c \in {FirstCall(e), SecondCall(e)} : cpc[c] # "none" }

\* the items of event e that are in the queue or were in it
EnqueuedOf(e) == { c \in CallsOf(e) : creport[c] = "enqueued" }

\* C11: items enter the queue in the order of their conversation events: as
\* soon as an item of a later event has been enqueued, the task of every
\* earlier event has finished, so all of its items were enqueued before;
\* this also when the queue was full when they were submitted.
C11_EnqueueOrderFollowsEvents ==
    \A a, b \in Events :
        (a < b /\ EnqueuedOf(b) # {}) => epc[a] = "done"

\* the task of event e has made the consent test of line 156
Handled(e) == epc[e] \notin {"none", "scheduled"}

\* the write_trace calls an event of this role makes when it is traced
ExpectedCalls(e) ==
    IF ev[e].role = ROLE_ASSISTANT THEN {FirstCall(e), SecondCall(e)} ELSE {FirstCall(e)}

\* C12: while the consent flag has never been true (it is unset or false
\* during the whole session so far), no write_trace call has been made and
\* nothing is in a queue, whatever turns were handled.
C12_NoConsentNoTrace ==
    ~consent_granted
    => /\ \A c \in Calls : cpc[c] = "none" /\ creport[c] = "none"
       /\ \A g \in Gens : queues[g].items = <<>> /\ queues[g].unfinished = 0
       /\ \A e \in Events : Handled(e) => epc[e] = "done"

C12_Witness ==
    /\ ~consent_granted
    /\ \E a, b \in Events :
         /\ epc[a] = "done" /\ ev[a].role = ROLE_USER /\ e_consent[a] = "None"
         /\ epc[b] = "done" /\ ev[b].role = ROLE_ASSISTANT /\ e_consent[b] = "False"

\* C13 as stated: a turn handled while consent is not recorded produces no
\* trace item, then or later, and once save_consent_to_record has granted
\* consent every turn handled afterwards produces its trace items.
C13_GrantedConsentStays ==
    [][/\ \A e \in Events :
            (epc[e] = "scheduled" /\ epc'[e] # "scheduled" /\ consent_granted)
            => cpc'[FirstCall(e)] # "none"
       /\ \A e \in Events :
            (Handled(e)' /\ e_consent'[e] # "True") => CallsOf(e)' = {}]_vars

\* C13 amended: the flag is read when the turn is handled and only then: a
\* turn handled while the flag is unset or false makes no write_trace call,
\* then or later, also when consent had been granted before and was taken
\* back; a turn handled while the flag is true makes its first call in that
\* same run and has made all its calls when its task ends, whatever the flag
\* becomes afterwards; a turn not yet handled has made none.
C13_ConsentCheckedPerEvent ==
    \A e \in Events :
        /\ e_consent[e] = "" <=> ~Handled(e)
        /\ ~Handled(e) => CallsOf(e) = {}
        /\ e_consent[e] \in {"None", "False"} => (CallsOf(e) = {} /\ epc[e] = "done")
        /\ e_consent[e] = "True"
           => /\ FirstCall(e) \in CallsOf(e)
              /\ CallsOf(e) \subseteq ExpectedCalls(e)
              /\ epc[e] = "done" => CallsOf(e) = ExpectedCalls(e)

C13_Witness ==
    /\ consent_to_record = "False"
    /\ \E a, b \in Events :
         /\ a < b
         /\ e_consent[a] = "None" /\ CallsOf(a) = {}
         /\ e_consent[b] = "True" /\ epc[b] = "content" /\ CallsOf(b) = ExpectedCalls(b)

\* C14: a turn handled with consent granted makes, for an assistant turn,
\* first a reasoning call (message_type reasoning:user_response, a message
\* of exactly frustration level and attempt count, should_redact false) and,
\* once that call has returned, a content call (message_type agent, a
\* message of exactly the response text, should_redact true), and no other;
\* for a user turn exactly one call (message_type user, the utterance text,
\* should_redact true).
C14_AssistantTwoUserOne ==
    \A e \in Events :
        e_consent[e] = "True"
        => LET f == FirstCall(e)
               s == SecondCall(e)
           IN IF ev[e].role = ROLE_ASSISTANT
              THEN /\ cpc[f] # "none"
                   /\ item[f].message_type = "reasoning:user_response"
                   /\ ~item[f].should_redact
                   /\ DOMAIN message[f] = {"user_frustration_level", "number_of_attempts"}
                   /\ cpc[s] # "none"
                      => /\ cpc[f] = "returned"
                         /\ item[s].message_type = "agent"
                         /\ item[s].should_redact
                         /\ DOMAIN message[s] = {"text"}
                   /\ epc[e] = "done" => cpc[s] = "returned"
                   /\ ev[e].text_content = ReplyText(<< "Hi the", "re, how can I help?" >>)
                      => /\ message[f] = [user_frustration_level |-> << "low" >>,
                                          number_of_attempts |-> 1]
                         /\ cpc[s] # "none"
                            => message[s] = [text |-> << "Hi the", "re, how can I help?" >>]
              ELSE /\ cpc[f] # "none"
                   /\ cpc[s] = "none"
                   /\ item[f].message_type = "user"
                   /\ item[f].should_redact
                   /\ message[f] = [text |-> ev[e].text_content]
                   /\ epc[e] = "done" => cpc[f] = "returned"

C14_Witness ==
    \E a, b \in Events :
        /\ ev[a].role = ROLE_ASSISTANT /\ epc[a] = "done"
        /\ ev[a].text_content = ReplyText(<< "Hi the", "re, how can I help?" >>)
        /\ creport[FirstCall(a)] = "enqueued" /\ creport[SecondCall(a)] = "enqueued"
        /\ ev[b].role = ROLE_USER /\ epc[b] = "done" /\ creport[FirstCall(b)] = "enqueued"

\* the calls of event e are those of the fallback record
FallbackCalls(e) ==
    /\ epc[e] # "failed"
    /\ cpc[FirstCall(e)] # "none"
    /\ item[FirstCall(e)].message_type = "reasoning:user_response"
    /\ message[FirstCall(e)] = [user_frustration_level |-> << "medium" >>,
                                number_of_attempts |-> -1]
    /\ cpc[SecondCall(e)] # "none"
       => /\ item[SecondCall(e)].message_type = "agent"
          /\ message[SecondCall(e)] = [text |-> << "Can you say that again, please?" >>]
    /\ epc[e] = "done" => cpc[SecondCall(e)] = "returned"

\* C15 as stated: for every handled assistant turn whose text does not
\* parse as the structured reply, the handler does not fail and submits one
\* reasoning item and one content item built from the fallback record.
C15_FallbackAlways ==
    \A e \in Events :
        (Handled(e) /\ ev[e].role = ROLE_ASSISTANT /\ ParseFailure(ev[e].text_content) # "none")
        => FallbackCalls(e)

\* C15 amended: for an assistant turn that is handled while consent is
\* recorded and whose text does not parse as the structured reply (parse or
\* validation failure), the handler does not fail and submits exactly one
\* reasoning item and then one content item, built from the fallback record:
\* frustration medium, attempts -1 and the fixed clarification text.
C15_FallbackWhenTraced ==
    \A e \in Events :
        (/\ e_consent[e] = "True"
         /\ ev[e].role = ROLE_ASSISTANT
         /\ ParseFailure(ev[e].text_content) # "none")
        => FallbackCalls(e)

C15_Witness ==
    \E a, b \in Events :
        /\ a # b
        /\ e_consent[a] = "True" /\ e_consent[b] = "True"
        /\ ev[a].text_content = << "Hi the" >> /\ ev[a].role = ROLE_ASSISTANT
        /\ ParseFailure(ev[b].text_content) = "ValidationError" /\ ev[b].role = ROLE_ASSISTANT
        /\ epc[a] = "done" /\ epc[b] = "done"
        /\ creport[SecondCall(a)] = "enqueued" /\ creport[SecondCall(b)] = "enqueued"

\* ------------------------------------------------------------ decoder claims
RECURSIVE Concat(_)
\* "".join(chunks)
Concat(chunks) ==
    IF chunks = <<>> THEN <<>> ELSE Head(chunks) \o Concat(Tail(chunks))

\* the text of the first n chunks of the token stream
StreamText(n) == SubSeq(document, 1, ChunkEnd(n))

\* the value of the response field after n chunks: empty while the text does
\* not parse or has no response string
ResponseAt(n) ==
    LET parsed == from_json(StreamText(n))
    IN IF parsed.kind # "dict" THEN <<>>
       ELSE IF ResponseMissing(parsed) THEN <<>>
       ELSE parsed.dict[KEY_RESPONSE].str

\* the response field only grows over the first n chunks
OnlyGrows(n) == \A m \in 1..n : IsPrefix(ResponseAt(m - 1), ResponseAt(m))

EmittedText(d) == Concat(emitted[d])

\* C16: on a stream whose response field only grows, what a run has emitted,
\* concatenated, is the value of the response field after every chunk it has
\* read, hence at the end of the stream; as that value only grows, the
\* emitted length never decreases from one chunk to the next.
C16_GrowingReplyEmittedWhole ==
    \A d \in Runs :
        (drun[d] \in {"running", "done"} /\ OnlyGrows(dpos[d]))
            => EmittedText(d) = ResponseAt(dpos[d])

C16_Witness ==
    /\ drun[1] = "done" /\ dpos[1] = NumChunks /\ OnlyGrows(NumChunks)
    /\ Len(document) > 14
    /\ Len(emitted[1]) = 2
    /\ EmittedText(1) = << "Hi the", "re, how can I help?" >>
    /\ ResponseAt(NumChunks) = EmittedText(1)

\* C17: after every chunk, on any stream, what a run has emitted is a prefix
\* of the current value of the response field.
C17_EmittedPrefixOfResponse ==
    \A d \in Runs :
        drun[d] \in {"running", "done"} => IsPrefix(EmittedText(d), ResponseAt(dpos[d]))

\* the round of run d that has just read a chunk
DecoderRound(d) == drun[d] = "running" /\ dpos'[d] = dpos[d] + 1

\* the claimed condition of an emission: the text read so far parses, its
\* response is a non-empty string, longer than what was emitted so far
EmissionDue(d) ==
    LET parsed == from_json(acc_text'[d])
    IN /\ parsed.kind = "dict"
       /\ ~ResponseMissing(parsed)
       /\ parsed.dict[KEY_RESPONSE].type = "str"
       /\ Len(parsed.dict[KEY_RESPONSE].str) > Len(EmittedText(d))

\* C18: a round emits exactly when the text read so far parses with a
\* non-empty response longer than what was emitted so far, and then emits
\* the part of the response beyond the emitted text.
C18_EmitsIffResponseLonger ==
    [][\A d \in Runs :
          DecoderRound(d) =>
              /\ (emitted'[d] # emitted[d]) <=> EmissionDue(d)
              /\ (emitted'[d] # emitted[d]) =>
                    emitted'[d] = Append(emitted[d],
                        Slice(from_json(acc_text'[d]).dict[KEY_RESPONSE].str,
                              Len(EmittedText(d))))]_vars

ConsumerInputs ==
    { TraceItem(MESSAGE_TYPE_USER, TRUE, FALSE, TRUE),
      TraceItem(MESSAGE_TYPE_USER, TRUE, TRUE, TRUE),
      TraceItem(UNHASHABLE, TRUE, TRUE, TRUE),
      TraceItem(MESSAGE_TYPE_USER, FALSE, FALSE, TRUE),
      TraceItem(MESSAGE_TYPE_REASONING_USER_RESPONSE, TRUE, FALSE, TRUE),
      TraceItem(MESSAGE_TYPE_AGENT, TRUE, FALSE, FALSE) }

\* the trace system is started and fed, in console or in deployed mode, and
\* not shut down
InitConsumer == TraceInit /\ RouterInit /\ WebIdle /\ EntryIdle /\ DecoderIdle

NextConsumer ==
    \/ entrypoint_init
    \/ \E it \in ConsumerInputs : conversation_item_handler(it)
    \/ \E c \in Calls : write_trace(c)
    \/ \E c \in Calls : write_trace_resume(c)
    \/ \E w \in Workers : consumer_get(w)
    \/ \E w \in Workers : consumer_handle(w)

SpecConsumer == InitConsumer /\ [][NextConsumer]_vars

\* lines 139-145: the redaction step was run on the item of call c
Redacted(c) == outcome[c] = "delivered" /\ ShouldRedact(item[c])

\* line 148: the Trace line of the item of call c was logged
Delivered(c) == outcome[c] = "delivered"

\* C20: in console mode an item that a consumer has handled is, when
\* is_unit_test is false, skipped (no redaction, no delivery) and marked
\* done once; when is_unit_test is true it ends as the deployed-mode
\* handling of the same item ends.
C20_ConsoleSkipsUnlessUnitTest ==
    \A c \in Calls :
        (is_console /\ outcome[c] # "none") =>
            IF item[c].is_unit_test
            THEN outcome[c] = HandleResult(item[c], FALSE)
            ELSE /\ outcome[c] = "skipped"
                 /\ done_marks[c] = 1
                 /\ ~Redacted(c) /\ ~Delivered(c)

C20_Witness ==
    \E a \in Calls : \E b \in Calls :
        /\ is_console
        /\ ~item[a].is_unit_test /\ outcome[a] = "skipped" /\ done_marks[a] = 1
        /\ item[b].is_unit_test /\ item[b].message_type = MESSAGE_TYPE_USER
        /\ outcome[b] = "delivered" /\ done_marks[b] = 1

\* ----------------------------------------------------------- item contents
\* C21: an item with should_redact false whose Trace line was logged was
\* handled with the very message that was passed to write_trace.
C21_UnredactedContentUnchanged ==
    \A c \in Calls :
        (~item[c].should_redact /\ outcome[c] = "delivered") => content[c] = message[c]

C21_Witness ==
    \E c \in Calls :
        /\ ~item[c].should_redact /\ item[c].message_type = MESSAGE_TYPE_USER
        /\ outcome[c] = "delivered"
        /\ message[c] = [text |-> << "Hi the" >>]
        /\ content[c] = message[c]

\* the entries of the handled message other than "text" are those passed
SameButText(c) ==
    /\ DOMAIN content[c] = DOMAIN message[c]
    /\ \A k \in DOMAIN message[c] : k # "text" => content[c][k] = message[c][k]

\* C22: in no step does a field of a built TraceItem change; message.text is
\* assigned at most once per item, by a consumer that holds the item, and
\* only when should_redact is true and message_type is user or agent; the
\* rest of the message is never touched.
C22_OnlyTextOnlyOnce ==
    [][\A c \in Calls :
          /\ item[c] # NoItem => item'[c] = item[c]
          /\ item[c] # NoItem => message'[c] = message[c]
          /\ text_writes'[c] <= 1
          /\ text_writes'[c] # text_writes[c] =>
                /\ \E w \in Workers : wpc[w] = "handle" /\ witem[w] = c
                /\ item[c].should_redact
                /\ item[c].message_type \in {MESSAGE_TYPE_USER, MESSAGE_TYPE_AGENT}
          /\ outcome'[c] = "delivered" => SameButText(c)']_vars

C22_Witness ==
    \E a \in Calls : \E b \in Calls :
        /\ text_writes[a] = 1 /\ outcome[a] = "delivered"
        /\ item[b].should_redact
        /\ item[b].message_type = MESSAGE_TYPE_REASONING_USER_RESPONSE
        /\ outcome[b] = "delivered" /\ text_writes[b] = 0

\* C23: an item whose redaction step fails has the failure logged, gets its
\* Trace line with the message as it was passed, and is marked done; its
\* handling does not end in the handler of line 156.
C23_RedactionFailureStillDelivered ==
    \A c \in Calls :
        (RedactFails(item[c]) /\ outcome[c] \notin {"none", "skipped"}) =>
            /\ redact_log[c]
            /\ outcome[c] = "delivered"
            /\ content[c] = message[c]
            /\ done_marks[c] = 1

C23_Witness ==
    \E c \in Calls :
        /\ RedactFails(item[c]) /\ item[c].message_type = MESSAGE_TYPE_AGENT
        /\ redact_log[c] /\ outcome[c] = "delivered" /\ done_marks[c] = 1
        /\ content[c] = EmptyDict

\* ------------------------------------------------------- conversation path
\* call c is suspended in put() on a queue object that nothing will ever
\* take from again: the queue is no longer the trace queue and no consumer is
\* waiting in its get()
SuspendedForGood(c) ==
    /\ cpc[c] = "blocked"
    /\ cq[c] # trace_queue
    /\ \A w \in Workers : ~(Alive(w) /\ wq[w] = cq[c])

\* C24: in every state of the trace system no exception leaves the task of
\* a conversation event, and every write_trace call has returned or can
\* still return.
C24_CallsReturnWithoutRaising ==
    /\ \A e \in Events : epc[e] # "failed"
    /\ \A c \in Calls : ~SuspendedForGood(c)

\* -------------------------------------------------------------- session end
\* C25 as stated: once the agent has left the session the backend has been
\* notified exactly once in deployed mode and not at all in console mode.
C25_NotifiedOncePerSession ==
    exit_consent # "" => notified = (IF is_console THEN 0 ELSE 1)

\* C25: the session-end endpoint gets one request when the agent leaves a
\* deployed-mode session whose consent_to_record is true at that moment, and
\* none before that, without consent, or in console mode.
C25_NotifiedOnceWithConsent ==
    notified = (IF exit_consent = "True" /\ ~is_console THEN 1 ELSE 0)

C25_Witness ==
    /\ ~is_console /\ exit_consent = "True" /\ notified = 1
    /\ nev >= 1

\* ------------------------------------------------------------- trace queue
\* C26: no queue object ever holds more items than its capacity, the
\* capacity init_trace_system gave it.
C26_QueueWithinCapacity ==
    \A g \in Gens :
        g <= ngen => /\ queues[g].maxsize = queue_maxsize
                     /\ Len(queues[g].items) <= queue_maxsize

C26_Witness ==
    \E g \in Gens : \E c \in Calls :
        /\ Len(queues[g].items) = queue_maxsize
        /\ cpc[c] = "blocked" /\ cq[c] = g
        /\ \E w \in Workers : Alive(w)

\* a queue that holds more than one item: the capacity is one more than in
\* the other specifications, the calls never outnumber it
InitFifo == TraceInitSized(QueueMaxSize + 1) /\ ~is_console /\ RouterInit /\ WebIdle /\ EntryIdle /\ DecoderIdle

NextFifo ==
    \/ entrypoint_init
    \/ \E it \in ItemInputs : conversation_item_handler(it)
    \/ \E c \in Calls : write_trace(c)
    \/ \E w \in Workers : consumer_get(w)
    \/ \E w \in Workers : consumer_handle(w)

SpecFifo == InitFifo /\ [][NextFifo]_vars

\* C27: items enter a queue at its tail and leave it at its head, and an
\* item is taken, by whichever consumer, only when it is the head: an item
\* enqueued before another is taken before it.
C27_QueueIsFifo ==
    [][/\ \A g \in Gens :
            \/ queues'[g].items = queues[g].items
            \/ \E c \in Calls : /\ c \notin Range(queues[g].items)
                                /\ queues'[g].items = Append(queues[g].items, c)
            \/ /\ queues[g].items # <<>>
               /\ queues'[g].items = Tail(queues[g].items)
               /\ taken'[Head(queues[g].items)] = taken[Head(queues[g].items)] + 1
       /\ \A y \in Calls :
            taken'[y] # taken[y] =>
                /\ cq[y] # None
                /\ queues[cq[y]].items # <<>>
                /\ Head(queues[cq[y]].items) = y]_vars

C27_Witness ==
    \E x \in Calls : \E y \in Calls : \E g \in Gens :
        /\ x # y /\ cq[x] = g /\ cq[y] = g
        /\ taken[x] = 1 /\ taken[y] = 0
        /\ queues[g].items = << y >>
        /\ taker[x] # 0
        /\ \E w \in Workers : wpc[w] = "woken" /\ wq[w] = g

\* ------------------------------------------------------------- web service
\* the request carries no X-API-Key header, or one that is not the
\* configured key
KeyMissingOrDiffers(req) ==
    \/ "X-API-Key" \notin DOMAIN req.headers
    \/ req.headers["X-API-Key"] # API_KEY

\* the view function ran the lk dispatch command for the request
CommandRun == \E i \in 1..Len(trail) : trail[i] = "subprocess.run(command)"

\* C28: a request whose X-API-Key header is missing or differs from the
\* configured key is answered with 401 by the decorator: the view function
\* makes no call for it (the body is neither parsed nor validated) and no
\* dispatch command is run.
C28_BadKeyAnswered401 ==
    (http_pc \in { "handler", "responded" } /\ KeyMissingOrDiffers(request)) =>
        /\ http_pc = "responded"
        /\ status = 401
        /\ trail = <<>>
        /\ ~CommandRun

C28_Witness ==
    /\ http_pc = "responded" /\ status = 401 /\ trail = <<>>
    /\ "X-API-Key" \in DOMAIN request.headers
    /\ request.headers["X-API-Key"] = "not-the-key"
    /\ DispatchCall(request, livekit_configured, << "returncode 0" >>).status = 200

\* a required field is not in the JSON object of the request
RequiredFieldAbsent(req) ==
    /\ req.json = "object"
    /\ \E i \in 1..Len(required_fields) : required_fields[i] \notin DOMAIN req.data

\* the request has a phone number that validate_phone_number rejects
PhoneRejected(req) ==
    /\ req.json = "object"
    /\ "phone_number" \in DOMAIN req.data
    /\ req.data["phone_number"].type = "str"
    /\ validate_phone_number(req.data["phone_number"].str) = NoPhone

\* C29: an authenticated request with a missing required field, or with a
\* phone number that validate_phone_number rejects, is answered with 400
\* and no dispatch command is run for it.
C29_InvalidRequestAnswered400 ==
    (/\ http_pc = "responded"
     /\ ~KeyMissingOrDiffers(request)
     /\ RequiredFieldAbsent(request) \/ PhoneRejected(request)) =>
        /\ status = 400
        /\ ~CommandRun

\* ---------------------------------------------------------------- shutdown
\* C30: the items that were in the queue when shutdown_trace_system was
\* called have been handled by a consumer when the wait for the queue is
\* over and the session is closed.
C30_QueuedItemsHandledBeforeClose ==
    sd_pc \in { "close", "L213" } =>
        \A i \in 1..Len(sd_items) : outcome[sd_items[i]] # "none"

\* ------------------------------------------------------------- termination
\* C31: on an event loop that keeps running, every write_trace call that
\* was made eventually returns.
C31_EveryCallReturns ==
    \A c \in Calls : (cpc[c] # "none") ~> (cpc[c] = "returned")

\* --------------------------------------------------------------- lifecycle
\* C33: after any sequence of init_trace_system and shutdown_trace_system
\* calls every live consumer task is in trace_consumers, so that at most
\* N_WRITE_TRACE_CONSUMERS are alive and none is left once a shutdown has
\* returned.
C33_LiveWorkersRecorded ==
    /\ AliveWorkers \subseteq Range(trace_consumers)
    /\ Cardinality(AliveWorkers) <= N_WRITE_TRACE_CONSUMERS
    /\ sd_streak >= 1 => AliveWorkers = {}

\* ---------------------------------------------------------------- shutdown
\* C32: an item is added to a queue only while a consumer of that queue is
\* alive and not cancelled: no write_trace enqueues an item after
\* shutdown_trace_system has cancelled the consumers.
C32_NoPutAfterCancel ==
    [][\A g \in Gens :
            Len(queues'[g].items) > Len(queues[g].items) =>
                \E w \in Workers : GenOf(w) = g /\ Alive(w) /\ wcancel[w] = "no"]_vars

C35_ShutdownReturns == (sd_pc # "idle") ~> (sd_pc = "idle")

C35_Witness ==
    /\ sd_pc = "idle" /\ sd_count >= 1 /\ ~sd_raised
    /\ \E g \in Gens : queues[g].items # <<>> /\ queues[g].unfinished > 0
    /\ \E c \in Calls : cpc[c] = "blocked"

\* ----------------------------------------------------------------- decoder
\* C36: no run of process_structured_output raises, whatever text is
\* streamed and however it is cut into chunks.
C36_DecoderNeverRaises == \A d \in Runs : drun[d] # "raised"

\* ------------------------------------------------------------- web service
\* the body of the request passes validate_request_data and its phone
\* number passes validate_phone_number
ValidRequest(req) ==
    /\ req.is_json
    /\ req.json = "object"
    /\ validate_request_data(req.data) = "None"
    /\ req.data["phone_number"].type = "str"
    /\ validate_phone_number(req.data["phone_number"].str) # NoPhone

\* the positions of the trail at which the lk dispatch command was run
CommandRuns == { i \in 1..Len(trail) : trail[i] = "subprocess.run(command)" }

\* C37: an authenticated, valid request is answered with 200 exactly when
\* the last run of the dispatch command ended with code 0, and with 500
\* otherwise; the command is run at most twice.
C37_SuccessOnlyOnExitZero ==
    (http_pc = "responded" /\ ~KeyMissingOrDiffers(request) /\ ValidRequest(request)) =>
        /\ status \in { 200, 500 }
        /\ status = 200 <=> (trail # <<>> /\ trail[Len(trail)] = "returncode 0")
        /\ Cardinality(CommandRuns) <= 2
        /\ Cardinality(CommandRuns) = 2 => \E i \in 1..Len(trail) : trail[i] = "installed"

C37_Witness ==
    /\ http_pc = "responded" /\ ~KeyMissingOrDiffers(request) /\ ValidRequest(request)
    /\ status = 200
    /\ Cardinality(CommandRuns) = 2


\* ------------------------------------------------------------- entrypoint
\* agent.py lines 455-475, up to the call of create_sip_participant: the
\* exception the try block raises, or "create_sip_participant" when it gets
\* to the call; matches is the re.match of r'^\+1[2-9]\d{2}[2-9]\d{6}$' at
\* line 457, which raises TypeError on a phone_number that is not a string
SetUp(j) ==
    LET phone_number == j.metadata["phone_number"]
        s == phone_number.str
        matches == /\ Len(s) = NationalDigits + 2
                   /\ s[1] = "+"
                   /\ s[2] = "1"
                   /\ s[3] \in Digit \ { "0", "1" }
                   /\ \A i \in 4..5 : s[i] \in Digit
                   /\ s[6] \in Digit \ { "0", "1" }
                   /\ \A i \in 7..(NationalDigits + 2) : s[i] \in Digit
    IN  IF phone_number.type # "str" THEN "TypeError"
        ELSE IF ~matches THEN "ValueError"
        ELSE IF ~j.trunk THEN "ValueError"
        ELSE "create_sip_participant"

\* lines 476-487: the except clauses are tried in order, and the second
\* one evaluates api.TwirpError; api is a local name of entrypoint, bound
\* by the import at line 466 only. TRUE when a clause handles the exception,
\* FALSE when evaluating the second clause raises UnboundLocalError
ExceptClauses(exc, api_bound) == exc = "ValueError" \/ api_bound

\* lines 431-453 (outbound) and 431-523 (inbound): init_trace_system, the
\* shutdown callback, the metadata, the test of line 448 (is_outbound_call
\* and phone_number), then ctx.connect() is awaited
entrypoint_begin ==
    /\ ep_pc = "start"
    /\ ~Busy
    /\ sd_pc = "idle"
    /\ trace_queue = None
    /\ ngen < MaxGen
    /\ init_trace_system
    /\ ep_trail' = << "init_trace_system", "add_shutdown_callback", "connect" >>
    /\ ep_pc' = IF ~FieldMissing(job.metadata, "phone_number") THEN "connect outbound"
                ELSE "connect inbound"
    /\ UNCHANGED job

\* lines 455-487, outbound, after ctx.connect(): up to the await of
\* create_sip_participant, or through the except clauses
entrypoint_setup ==
    /\ ep_pc = "connect outbound"
    /\ IF SetUp(job) = "create_sip_participant"
       THEN /\ ep_trail' = Append(ep_trail, "create_sip_participant")
            /\ ep_pc' = "create_sip_participant"
       ELSE IF ExceptClauses(SetUp(job), FALSE)
            THEN /\ ep_trail' = Append(ep_trail, "shutdown")
                 /\ ep_pc' = "returned"
            ELSE /\ ep_trail' = ep_trail
                 /\ ep_pc' = "raised"
    /\ UNCHANGED << is_console, queue_maxsize, job, web_vars, router_vars, decoder_vars,
                    lifecycle_vars, shutdown_vars, queues, worker_vars, call_vars, log_vars >>

\* lines 467-490: create_sip_participant returns, or raises after the
\* import at line 466 has bound api
entrypoint_sip ==
    /\ ep_pc = "create_sip_participant"
    /\ IF job.sip = "ok"
       THEN /\ ep_trail' = Append(ep_trail, "wait_for_participant")
            /\ ep_pc' = "wait_for_participant"
       ELSE IF ExceptClauses(job.sip, TRUE)
            THEN /\ ep_trail' = Append(ep_trail, "shutdown")
                 /\ ep_pc' = "returned"
            ELSE /\ ep_trail' = ep_trail
                 /\ ep_pc' = "raised"
    /\ UNCHANGED << is_console, queue_maxsize, job, web_vars, router_vars, decoder_vars,
                    lifecycle_vars, shutdown_vars, queues, worker_vars, call_vars, log_vars >>

\* lines 526-578: the participant has joined (line 490) or, inbound,
\* ctx.connect() has returned and wait_for_participant (line 526) is
\* awaited first; the session is built, the conversation handler registered
\* and session_obj.start awaited
entrypoint_session ==
    /\ ep_pc \in { "connect inbound", "wait_for_participant" }
    /\ ep_trail' = (IF ep_pc = "connect inbound"
                    THEN Append(ep_trail, "wait_for_participant") ELSE ep_trail)
                   \o << "on conversation_item_added", "start" >>
    /\ ep_pc' = "start awaited"
    /\ UNCHANGED << is_console, queue_maxsize, job, web_vars, router_vars, decoder_vars,
                    lifecycle_vars, shutdown_vars, queues, worker_vars, call_vars, log_vars >>

\* job metadata: the default, and outbound metadata with a phone_number
Jobs ==
    LET phones == { Absent, StrVal(<<>>), NumVal(5),
                    StrVal(<< "+", "1" >> \o ValidNational),
                    StrVal(ValidNational),
                    StrVal(<< "+", "1" >> \o [ValidNational EXCEPT ![1] = "1"]) }
        metadata == { WithField(DictSet(EmptyDict, "identity", StrVal(<< "sales-lead" >>)),
                                "phone_number", ph) : ph \in phones }
    IN  [metadata : metadata, trunk : BOOLEAN, sip : { "ok", "TwirpError", "Exception" }]

InitEntry ==
    /\ TraceInit /\ RouterInit /\ WebIdle /\ DecoderIdle
    /\ job \in Jobs
    /\ ep_pc = "start"
    /\ ep_trail = <<>>

\* one job from the start of entrypoint, with the consumer tasks that
\* init_trace_system created running while entrypoint awaits
NextEntry ==
    \/ entrypoint_begin
    \/ entrypoint_setup
    \/ entrypoint_sip
    \/ entrypoint_session
    \/ \E w \in Workers : consumer_get(w)

SpecEntry == InitEntry /\ [][NextEntry]_vars

\* ---------------------------------------------------------------- C38
Called(name) == \E i \in 1..Len(ep_trail) : ep_trail[i] = name

\* the job is an outbound call whose set-up (lines 455-487) has failed: the
\* try block has raised before or in create_sip_participant
SetUpFailed ==
    /\ ~FieldMissing(job.metadata, "phone_number")
    /\ \/ ep_pc \notin { "start", "connect outbound" }
          /\ SetUp(job) # "create_sip_participant"
       \/ ep_pc \notin { "start", "connect outbound", "create_sip_participant" }
          /\ job.sip # "ok"

\* C38: entrypoint initialises the trace system and registers the shutdown
\* callback before any other step, and when the set-up of an outbound call
\* has failed (bad phone number, no SIP trunk id, SIP API error, any other
\* error) the job has been shut down and entrypoint has returned, without
\* registering the conversation handler and without starting a session
C38_FailedSetUpShutsDown ==
    /\ ep_trail # <<>> =>
         /\ Len(ep_trail) >= 2
         /\ ep_trail[1] = "init_trace_system"
         /\ ep_trail[2] = "add_shutdown_callback"
    /\ SetUpFailed =>
         /\ ep_pc = "returned"
         /\ Called("shutdown")
         /\ ~Called("on conversation_item_added")
         /\ ~Called("start")

====
